---- MODULE Spec2Model ----
(***************************************************************************)
(* Waste & Recommendation Analytics Engine and Recipe Matching Engine of   *)
(* the food-inventory assistant (services/analyticsService.js and          *)
(* services/mealPlanningService.js).                                       *)
(*                                                                         *)
(* The engine is a collection of pure functions.  The state is the user's  *)
(* stored data (history, inventory), the call in progress (call) and the   *)
(* value it returned (result).  Every exported function is one action      *)
(* that draws its remaining arguments from a small set.                    *)
(*                                                                         *)
(* Conventions                                                             *)
(*  - names are TLA+ strings; toLowerCase and String.includes are computed *)
(*    character by character;                                              *)
(*  - money is counted in thousandths of the currency unit (1.20 = 1200),  *)
(*    so that toFixed(2) is a real rounding;                               *)
(*  - instants are counted in ticks, TicksPerDay ticks to the day, tick 0  *)
(*    being midnight of 2025-11-21;                                        *)
(*  - a JavaScript number that may be NaN is a record [nan, v]; an amount   *)
(*    of money is an integer, or NaN where the code computes NaN;           *)
(*  - a field a record was created without is absent from the record.      *)
(***************************************************************************)
EXTENDS Integers, Sequences, FiniteSets, TLC

VARIABLES history, inventory, call, result

vars == <<history, inventory, call, result>>

(***************************************************************************)
(* Bounds of the model.                                                    *)
(***************************************************************************)
MaxLog == 8
MaxNameLog == 3
MaxPriceLog == 2
MaxLongLog == 12

\* the length of the longest log: 40 entries of each food of Scenario E but
\* the last
LongestLog == 199

MaxInv == 2
TicksPerDay == 2

(***************************************************************************)
(* JavaScript primitives.                                                  *)
(***************************************************************************)
Num(n) == [nan |-> FALSE, v |-> n]

NaN == [nan |-> TRUE, v |-> 0]

Min(a, b) == IF a <= b THEN a ELSE b

\* mutant: Math.floor(a / b)
FloorDiv(a, b) == a \div b

\* Math.ceil(a / b) for an integer a and b > 0
CeilDiv(a, b) == -((-a) \div b)

\* Math.round(a / b) for a >= 0 and b > 0: the nearest integer, half rounds up
RoundDiv(a, b) == (2 * a + b) \div (2 * b)

\* parseFloat(x.toFixed(2)) for x >= 0 in thousandths: rounded to hundredths.
\* A third decimal of exactly 5 is rounded by the binary value of the double,
\* up or down; the amounts drawn below are even, so that none of their sums
\* ends in 5.
ToFixed2(x) == ((x + 5) \div 10) * 10

LowerChar(c) ==
  CASE c = "A" -> "a" [] c = "B" -> "b" [] c = "C" -> "c" [] c = "D" -> "d"
    [] c = "E" -> "e" [] c = "F" -> "f" [] c = "G" -> "g" [] c = "H" -> "h"
    [] c = "I" -> "i" [] c = "J" -> "j" [] c = "K" -> "k" [] c = "L" -> "l"
    [] c = "M" -> "m" [] c = "N" -> "n" [] c = "O" -> "o" [] c = "P" -> "p"
    [] c = "Q" -> "q" [] c = "R" -> "r" [] c = "S" -> "s" [] c = "T" -> "t"
    [] c = "U" -> "u" [] c = "V" -> "v" [] c = "W" -> "w" [] c = "X" -> "x"
    [] c = "Y" -> "y" [] c = "Z" -> "z" [] OTHER -> c

RECURSIVE toLowerCase(_)
toLowerCase(s) ==
  IF Len(s) = 0 THEN ""
  ELSE LowerChar(SubSeq(s, 1, 1)) \o toLowerCase(SubSeq(s, 2, Len(s)))

\* s.includes(k): k occurs in s as a contiguous substring
includes(s, k) ==
  \E i \in 1..(Len(s) - Len(k) + 1) : SubSeq(s, i, i + Len(k) - 1) = k

\* array.some(k => s.includes(k)) over a sequence of keywords
SomeIncluded(keywords, s) ==
  \E j \in 1..Len(keywords) : includes(s, keywords[j])

\* array.includes(x)
ArrayIncludes(arr, x) == \E j \in 1..Len(arr) : arr[j] = x

\* array.slice(0, n) for n >= 0
Slice0(arr, n) == SubSeq(arr, 1, Min(n, Len(arr)))

\* array.slice(n)
SliceFrom(arr, n) == SubSeq(arr, n + 1, Len(arr))

RECURSIVE SumSeq(_)
SumSeq(s) ==
  IF Len(s) = 0 THEN 0
  ELSE IF Len(s) = 1 THEN s[1]
  ELSE SumSeq(SubSeq(s, 1, Len(s) \div 2)) + SumSeq(SubSeq(s, Len(s) \div 2 + 1, Len(s)))

\* a || b on strings: the empty string is falsy
OrElse(a, b) == IF a # "" THEN a ELSE b

\* r.f is not undefined
HasField(r, f) == f \in DOMAIN r

\* every record has a price: number + undefined and undefined * number are
\* NaN, and NaN stays NaN through a sum, toFixed(2) and parseFloat
AllPriced(records) == \A i \in 1..Len(records) : HasField(records[i], "price")

IsWasted(e) == e.status = "wasted"

IsConsumed(e) == e.status = "consumed"

(***************************************************************************)
(* calculateWasteMetrics                                                   *)
(***************************************************************************)
DefaultToday == 0

\* the parameter todayString = "2025-11-21": the default when the argument
\* is omitted, whatever the instant of the call
TodayString(omitted, todayString, now) == IF omitted THEN DefaultToday ELSE todayString

\* mutant: the quantity multiplied into the historical loss
WastedSumTimesQuantity(h) ==
  SumSeq([i \in 1..Len(SelectSeq(h, IsWasted)) |->
            SelectSeq(h, IsWasted)[i].price * SelectSeq(h, IsWasted)[i].quantity])

\* history.filter(wasted).reduce((sum, item) => sum + item.price, 0)
WastedSum(h) ==
  SumSeq([i \in 1..Len(SelectSeq(h, IsWasted)) |-> SelectSeq(h, IsWasted)[i].price])

\* Math.ceil((expiry - today) / (1000 * 60 * 60 * 24))
DaysLeft(item, today) == CeilDiv(item.expiry - today, TicksPerDay)

\* mutant: an item due at the reference instant counted as at risk
IsRiskFromToday(item, today) == DaysLeft(item, today) <= 2 /\ DaysLeft(item, today) >= 0

\* If expires in 2 days or less, it's High Risk.  new Date(undefined), like
\* the Date of an unparsable string, is an Invalid Date: daysLeft is NaN and
\* both comparisons are false
IsRisk(item, today) ==
  HasField(item, "expiry") /\ DaysLeft(item, today) <= 2 /\ DaysLeft(item, today) > 0

RiskItem(item, today) ==
  [name |-> OrElse(item.name, item.item),
   daysLeft |-> DaysLeft(item, today),
   riskPrice |-> IF HasField(item, "price") THEN item.price * item.quantity ELSE NaN]

RECURSIVE RiskItems(_, _)
RiskItems(inv, today) ==
  IF inv = <<>> THEN <<>>
  ELSE (IF IsRisk(Head(inv), today) THEN <<RiskItem(Head(inv), today)>> ELSE <<>>)
       \o RiskItems(Tail(inv), today)

calculateWasteMetrics(h, inv, today) ==
  LET riskItems == RiskItems(inv, today)
      riskValue == SumSeq([i \in 1..Len(riskItems) |-> riskItems[i].riskPrice])
      atRisk == SelectSeq(inv, LAMBDA item : IsRisk(item, today))
  IN [totalWastedMoney |->
        IF AllPriced(SelectSeq(h, IsWasted)) THEN ToFixed2(WastedSum(h)) ELSE NaN,
      riskValue |-> IF AllPriced(atRisk) THEN ToFixed2(riskValue) ELSE NaN,
      riskItems |-> riskItems,
      riskItemNames |-> [i \in 1..Len(riskItems) |-> riskItems[i].name]]

(***************************************************************************)
(* calculateSDGScore                                                       *)
(***************************************************************************)
BaselineScore == 50

\* mutant: the rate truncated instead of rounded
SuccessRateTruncated(consumedCount, totalItems) == (consumedCount * 100) \div totalItems

SuccessRate(consumedCount, totalItems) == RoundDiv(consumedCount * 100, totalItems)

\* mutant: no baseline for the empty log
calculateSDGScoreNoBaseline(h) ==
  [sdgScore |-> 0, successRate |-> 0,
   wastedCount |-> Len(SelectSeq(h, IsWasted)),
   consumedCount |-> Len(SelectSeq(h, IsConsumed)), totalItems |-> Len(h)]

calculateSDGScore(h) ==
  IF Len(h) = 0
  THEN [sdgScore |-> BaselineScore, successRate |-> 0, wastedCount |-> 0,
        consumedCount |-> 0, totalItems |-> 0]
  ELSE LET wastedCount == Len(SelectSeq(h, IsWasted))
           consumedCount == Len(SelectSeq(h, IsConsumed))
           totalItems == Len(h)
           successRate == SuccessRate(consumedCount, totalItems)
       IN [sdgScore |-> successRate, successRate |-> successRate,
           wastedCount |-> wastedCount, consumedCount |-> consumedCount,
           totalItems |-> totalItems]

(***************************************************************************)
(* interpretSDGScore                                                       *)
(***************************************************************************)
interpretSDGScore(score) ==
  IF score >= 85 THEN "Excellent"
  ELSE IF score >= 70 THEN "Great"
  ELSE IF score >= 50 THEN "Good effort"
  ELSE "Time to make a change"

(***************************************************************************)
(* calculateNutritionScore                                                 *)
(***************************************************************************)
fruitKeywords == <<"apple", "orange", "banana", "berries", "mango", "grape">>

vegKeywords == <<"carrot", "lettuce", "broccoli", "spinach", "tomato", "cucumber">>

proteinKeywords == <<"egg", "chicken", "fish", "meat", "tofu", "bean", "lentil">>

grainKeywords == <<"bread", "rice", "wheat", "oat", "pasta", "cereal">>

dairyKeywords == <<"milk", "cheese", "yogurt", "butter">>

NoCategories == [fruits |-> 0, vegetables |-> 0, proteins |-> 0, grains |-> 0, dairy |-> 0]

GenericSuggestions == <<"Add more vegetables", "Include proteins", "Eat whole grains">>

GreatVariety == "Great variety! Keep it up!"

\* (item.name || item.item || "").toLowerCase()
ItemName(e) == toLowerCase(OrElse(e.name, e.item))

\* mutant: dairy tested before the other categories
CategorizeDairyFirst(itemName) ==
  IF SomeIncluded(dairyKeywords, itemName) THEN "dairy"
  ELSE IF SomeIncluded(fruitKeywords, itemName) THEN "fruits"
  ELSE IF SomeIncluded(vegKeywords, itemName) THEN "vegetables"
  ELSE IF SomeIncluded(proteinKeywords, itemName) THEN "proteins"
  ELSE IF SomeIncluded(grainKeywords, itemName) THEN "grains"
  ELSE "none"

\* the if / else-if chain: the first category with a keyword in the name
Categorize(itemName) ==
  IF SomeIncluded(fruitKeywords, itemName) THEN "fruits"
  ELSE IF SomeIncluded(vegKeywords, itemName) THEN "vegetables"
  ELSE IF SomeIncluded(proteinKeywords, itemName) THEN "proteins"
  ELSE IF SomeIncluded(grainKeywords, itemName) THEN "grains"
  ELSE IF SomeIncluded(dairyKeywords, itemName) THEN "dairy"
  ELSE "none"

RECURSIVE CountCategories(_)
CountCategories(consumedItems) ==
  IF Len(consumedItems) = 0 THEN NoCategories
  ELSE IF Len(consumedItems) = 1
  THEN LET cat == Categorize(ItemName(consumedItems[1]))
       IN IF cat = "none" THEN NoCategories ELSE [NoCategories EXCEPT ![cat] = @ + 1]
  ELSE LET half == Len(consumedItems) \div 2
           first == CountCategories(SubSeq(consumedItems, 1, half))
           rest == CountCategories(SubSeq(consumedItems, half + 1, Len(consumedItems)))
       IN [cat \in DOMAIN NoCategories |-> first[cat] + rest[cat]]

\* mutant: the ideal share rounded down
MaxPerCategoryFloored(consumedCount) == consumedCount \div 5

MaxPerCategory(consumedCount) == CeilDiv(consumedCount, 5)

\* Object.values(categories), in insertion order
CategoryValues(c) == <<c.fruits, c.vegetables, c.proteins, c.grains, c.dairy>>

\* mutant: the mean of the category scores is truncated
NutritionScoreTruncated(counts, maxPerCategory) ==
  IF maxPerCategory = 0
  THEN IF \E i \in 1..Len(counts) : counts[i] = 0
       THEN NaN
       ELSE Num(100)
  ELSE Num(SumSeq([i \in 1..Len(counts) |-> Min(counts[i] * 100, 100 * maxPerCategory)])
           \div (5 * maxPerCategory))

\* Math.round(sum of Math.min(count / maxPerCategory * 100, 100) / 5).
\* With maxPerCategory = 0 a count of 0 gives 0 / 0 = NaN, which Math.min,
\* the sum and Math.round all propagate; a positive count gives Infinity,
\* capped at 100.  The quotient is rounded exactly: a half can only occur
\* when maxPerCategory is a multiple of 8.
NutritionScoreOf(counts, maxPerCategory) ==
  IF maxPerCategory = 0
  THEN IF \E i \in 1..Len(counts) : counts[i] = 0
       THEN NaN
       ELSE Num(RoundDiv(100 * Len(counts), 5))
  ELSE Num(RoundDiv(
         SumSeq([i \in 1..Len(counts) |-> Min(counts[i] * 100, 100 * maxPerCategory)]),
         5 * maxPerCategory))

\* mutant: dairy held to the half threshold of the other categories
SuggestionsDairyAtHalf(c, maxPerCategory) ==
  LET suggestions ==
        (IF 2 * c.vegetables < maxPerCategory
           THEN <<"Boost vegetables to 25% of meals">> ELSE <<>>)
        \o (IF 2 * c.fruits < maxPerCategory
           THEN <<"Add more fruits for vitamins">> ELSE <<>>)
        \o (IF 2 * c.proteins < maxPerCategory
           THEN <<"Include proteins in every meal">> ELSE <<>>)
        \o (IF 2 * c.grains < maxPerCategory
           THEN <<"Choose whole grains">> ELSE <<>>)
        \o (IF 2 * c.dairy < maxPerCategory
           THEN <<"Add dairy for calcium">> ELSE <<>>)
  IN IF Len(suggestions) > 0 THEN suggestions ELSE <<GreatVariety>>

Suggestions(c, maxPerCategory) ==
  LET suggestions ==
        (IF 2 * c.vegetables < maxPerCategory
           THEN <<"Boost vegetables to 25% of meals">> ELSE <<>>)
        \o (IF 2 * c.fruits < maxPerCategory
           THEN <<"Add more fruits for vitamins">> ELSE <<>>)
        \o (IF 2 * c.proteins < maxPerCategory
           THEN <<"Include proteins in every meal">> ELSE <<>>)
        \o (IF 2 * c.grains < maxPerCategory
           THEN <<"Choose whole grains">> ELSE <<>>)
        \o (IF 3 * c.dairy < maxPerCategory
           THEN <<"Add dairy for calcium">> ELSE <<>>)
  IN IF Len(suggestions) > 0 THEN suggestions ELSE <<GreatVariety>>

\* mutant: no guard for the empty log
calculateNutritionScoreUnguarded(h) ==
  LET consumedItems == SelectSeq(h, IsConsumed)
      categories == CountCategories(consumedItems)
      maxPerCategory == MaxPerCategory(Len(consumedItems))
  IN [nutritionScore |-> NutritionScoreOf(CategoryValues(categories), maxPerCategory),
      categories |-> categories,
      totalConsumed |-> Len(consumedItems),
      suggestions |-> Suggestions(categories, maxPerCategory)]

calculateNutritionScore(h) ==
  IF Len(h) = 0
  THEN [nutritionScore |-> Num(BaselineScore), categories |-> NoCategories,
        totalConsumed |-> 0, suggestions |-> GenericSuggestions]
  ELSE LET consumedItems == SelectSeq(h, IsConsumed)
           categories == CountCategories(consumedItems)
           maxPerCategory == MaxPerCategory(Len(consumedItems))
       IN [nutritionScore |-> NutritionScoreOf(CategoryValues(categories), maxPerCategory),
           categories |-> categories,
           totalConsumed |-> Len(consumedItems),
           suggestions |-> Suggestions(categories, maxPerCategory)]

(***************************************************************************)
(* generateWeeklyInsights.  An insight line is its kind and its number.    *)
(***************************************************************************)
Abs(n) == IF n < 0 THEN -n ELSE n

\* mutant: no line for a score that did not change
InsightsWithoutStable(scoreImprovement, wasteReduction, consumedMore) ==
  (IF scoreImprovement > 0 THEN <<[kind |-> "improved", n |-> scoreImprovement]>>
   ELSE IF scoreImprovement < 0 THEN <<[kind |-> "dropped", n |-> Abs(scoreImprovement)]>>
   ELSE <<>>)
  \o (IF wasteReduction > 0 THEN <<[kind |-> "fewer", n |-> wasteReduction]>>
      ELSE IF wasteReduction < 0 THEN <<[kind |-> "more", n |-> Abs(wasteReduction)]>>
      ELSE <<>>)
  \o (IF consumedMore > 0 THEN <<[kind |-> "consumedMore", n |-> consumedMore]>>
      ELSE <<>>)

Insights(scoreImprovement, wasteReduction, consumedMore) ==
  (IF scoreImprovement > 0 THEN <<[kind |-> "improved", n |-> scoreImprovement]>>
   ELSE IF scoreImprovement < 0 THEN <<[kind |-> "dropped", n |-> Abs(scoreImprovement)]>>
   ELSE <<[kind |-> "stable", n |-> 0]>>)
  \o (IF wasteReduction > 0 THEN <<[kind |-> "fewer", n |-> wasteReduction]>>
      ELSE IF wasteReduction < 0 THEN <<[kind |-> "more", n |-> Abs(wasteReduction)]>>
      ELSE <<>>)
  \o (IF consumedMore > 0 THEN <<[kind |-> "consumedMore", n |-> consumedMore]>>
      ELSE <<>>)

generateWeeklyInsights(h, currentMetrics) ==
  LET twoWeeksAgo == Slice0(h, CeilDiv(Len(h), 2))
      prevMetrics == calculateSDGScore(twoWeeksAgo)
      scoreImprovement == currentMetrics.sdgScore - prevMetrics.sdgScore
      prevWasted == Len(SelectSeq(twoWeeksAgo, IsWasted))
      wasteReduction == prevWasted - currentMetrics.wastedCount
  IN [weeklyChange |-> scoreImprovement,
      wasteReduction |-> wasteReduction,
      insights |-> Insights(scoreImprovement, wasteReduction,
                            currentMetrics.consumedCount - prevMetrics.consumedCount),
      previousScore |-> prevMetrics.sdgScore,
      currentScore |-> currentMetrics.sdgScore]

(***************************************************************************)
(* generateActionableRecommendations.  potentialImprovement is kept in     *)
(* hundredths (0.25 = 25, 0.15 = 15), which is exact for integer metrics.  *)
(***************************************************************************)
MaxRecommendations == 3

ImprovementCap == 30

WasteSteps ==
  <<"Check fridge daily for expiring items", "Plan meals with expiring items first",
    "Use NOURISHBOT's meal suggestions">>

VegetableSteps == <<"Try carrot salad", "Make veggie stir-fry", "Add veggies to every meal">>

ProteinSteps == <<"Add eggs to breakfast", "Include beans in lunch", "Choose protein for dinner">>

\* Math.min(wastedCount * 10, 100 - sdgScore)
WasteReductionPotential(sdgMetrics) ==
  Min(sdgMetrics.wastedCount * 10, 100 - sdgMetrics.sdgScore)

\* mutant: a gap of exactly 15 proposes the candidate
NutritionFiresFrom15(nutritionScore) == ~nutritionScore.nan /\ 100 - nutritionScore.v >= 15

\* nutritionPotential > 15, false when nutritionScore is NaN
NutritionFires(nutritionScore) == ~nutritionScore.nan /\ 100 - nutritionScore.v > 15

\* suggestions[0]; undefined on an empty array
FirstOf(suggestions) == IF Len(suggestions) > 0 THEN suggestions[1] ELSE "undefined"

Candidates(sdgMetrics, nutritionMetrics) ==
  LET wrp == WasteReductionPotential(sdgMetrics)
      np == 100 - nutritionMetrics.nutritionScore.v
  IN (IF wrp > 0
      THEN <<[action |-> "Focus on waste reduction",
              description |-> <<"Reduce waste by 25%", RoundDiv(wrp * 25, 100)>>,
              impact |-> RoundDiv(wrp * 25, 100), priority |-> "HIGH",
              steps |-> WasteSteps, adds |-> wrp * 25]>>
      ELSE <<>>)
     \o (IF NutritionFires(nutritionMetrics.nutritionScore)
         THEN <<[action |-> "Improve nutrition diversity",
                 description |-> <<FirstOf(nutritionMetrics.suggestions),
                                   RoundDiv(np * 30, 100)>>,
                 impact |-> RoundDiv(np * 30, 100), priority |-> "MEDIUM",
                 steps |-> Slice0(nutritionMetrics.suggestions, 2), adds |-> np * 15]>>
         ELSE <<>>)
     \o (IF nutritionMetrics.categories.vegetables < 2
         THEN <<[action |-> "Add more vegetables",
                 description |-> <<"Boost SDG score by 10%", 10>>,
                 impact |-> 10, priority |-> "HIGH",
                 steps |-> VegetableSteps, adds |-> 1000]>>
         ELSE <<>>)
     \o (IF nutritionMetrics.categories.proteins < 2
         THEN <<[action |-> "Include more proteins",
                 description |-> <<"Protein-rich meals reduce waste by 15%", 15>>,
                 impact |-> 15, priority |-> "MEDIUM",
                 steps |-> ProteinSteps, adds |-> 500]>>
         ELSE <<>>)

Recommendation(c) ==
  [action |-> c.action, description |-> c.description, impact |-> c.impact,
   priority |-> c.priority, steps |-> c.steps]

\* mutant: the running total returned without the cap
UncappedImprovement(total) == total

\* Math.min(potentialImprovement, 30), in hundredths
CappedImprovement(total) == Min(total, ImprovementCap * 100)

\* mutant: every candidate returned
AllRecommendations(recs) == recs

\* recommendations.slice(0, 3)
TopRecommendations(recs) == Slice0(recs, MaxRecommendations)

\* Math.min(sdgScore + Math.round(potentialImprovement), 100)
EstimatedNewScore(sdgScore, improvement) == Min(sdgScore + improvement, 100)

generateActionableRecommendations(sdgMetrics, nutritionMetrics) ==
  LET cands == Candidates(sdgMetrics, nutritionMetrics)
      potentialImprovement ==
        CappedImprovement(SumSeq([i \in 1..Len(cands) |-> cands[i].adds]))
  IN [recommendations |->
        TopRecommendations([i \in 1..Len(cands) |-> Recommendation(cands[i])]),
      potentialImprovement |-> RoundDiv(potentialImprovement, 100),
      estimatedNewScore |->
        EstimatedNewScore(sdgMetrics.sdgScore, RoundDiv(potentialImprovement, 100))]

(***************************************************************************)
(* generateCompleteSDGProfile                                              *)
(***************************************************************************)
\* mutant: the weekly insights are given the metrics of the later half
generateCompleteSDGProfileOfLaterHalf(h, inv, today) ==
  LET wasteMetrics == calculateWasteMetrics(h, inv, today)
      sdgMetrics == calculateSDGScore(h)
      nutritionMetrics == calculateNutritionScore(h)
      weeklyInsights ==
        generateWeeklyInsights(h, calculateSDGScore(SliceFrom(h, CeilDiv(Len(h), 2))))
      recommendations == generateActionableRecommendations(sdgMetrics, nutritionMetrics)
  IN [personalSDGScore |-> sdgMetrics.sdgScore,
      scoreInterpretation |-> interpretSDGScore(sdgMetrics.sdgScore),
      waste |-> [totalWastedMoney |-> wasteMetrics.totalWastedMoney,
                 riskValue |-> wasteMetrics.riskValue,
                 riskItems |-> wasteMetrics.riskItems,
                 successRate |-> sdgMetrics.successRate],
      nutrition |-> [score |-> nutritionMetrics.nutritionScore,
                     breakdown |-> nutritionMetrics.categories,
                     suggestions |-> nutritionMetrics.suggestions],
      weeklyInsights |-> [change |-> weeklyInsights.weeklyChange,
                          insights |-> weeklyInsights.insights,
                          wasteReduction |-> weeklyInsights.wasteReduction],
      recommendations |-> recommendations.recommendations,
      potentialImprovement |-> recommendations.potentialImprovement,
      estimatedNewScore |-> recommendations.estimatedNewScore,
      metrics |-> [itemsConsumed |-> sdgMetrics.consumedCount,
                   itemsWasted |-> sdgMetrics.wastedCount,
                   totalItems |-> sdgMetrics.totalItems]]

generateCompleteSDGProfile(h, inv, today) ==
  LET wasteMetrics == calculateWasteMetrics(h, inv, today)
      sdgMetrics == calculateSDGScore(h)
      nutritionMetrics == calculateNutritionScore(h)
      weeklyInsights == generateWeeklyInsights(h, sdgMetrics)
      recommendations == generateActionableRecommendations(sdgMetrics, nutritionMetrics)
  IN [personalSDGScore |-> sdgMetrics.sdgScore,
      scoreInterpretation |-> interpretSDGScore(sdgMetrics.sdgScore),
      waste |-> [totalWastedMoney |-> wasteMetrics.totalWastedMoney,
                 riskValue |-> wasteMetrics.riskValue,
                 riskItems |-> wasteMetrics.riskItems,
                 successRate |-> sdgMetrics.successRate],
      nutrition |-> [score |-> nutritionMetrics.nutritionScore,
                     breakdown |-> nutritionMetrics.categories,
                     suggestions |-> nutritionMetrics.suggestions],
      weeklyInsights |-> [change |-> weeklyInsights.weeklyChange,
                          insights |-> weeklyInsights.insights,
                          wasteReduction |-> weeklyInsights.wasteReduction],
      recommendations |-> recommendations.recommendations,
      potentialImprovement |-> recommendations.potentialImprovement,
      estimatedNewScore |-> recommendations.estimatedNewScore,
      metrics |-> [itemsConsumed |-> sdgMetrics.consumedCount,
                   itemsWasted |-> sdgMetrics.wastedCount,
                   totalItems |-> sdgMetrics.totalItems]]

(***************************************************************************)
(* recipeDatabase: lower-cased primary ingredient -> recipes                *)
(***************************************************************************)
Recipe(name, ingredients, time, difficulty) ==
  [name |-> name, ingredients |-> ingredients, time |-> time, difficulty |-> difficulty]

YogurtRecipes ==
  <<Recipe("Yogurt Parfait", <<"yogurt", "granola", "berries">>, "5 min", "Easy"),
    Recipe("Yogurt Smoothie", <<"yogurt", "banana", "berries", "milk">>, "10 min", "Easy"),
    Recipe("Tzatziki Sauce", <<"yogurt", "cucumber", "garlic", "dill">>, "15 min", "Easy")>>

CarrotRecipes ==
  <<Recipe("Carrot Stir Fry", <<"carrots", "oil", "garlic", "soy sauce">>, "15 min", "Easy"),
    Recipe("Carrot Soup", <<"carrots", "onion", "vegetable broth", "cream">>, "30 min", "Medium"),
    Recipe("Raw Carrot Salad", <<"carrots", "apple", "lemon juice", "oil">>, "10 min", "Easy")>>

RiceRecipes ==
  <<Recipe("Vegetable Fried Rice", <<"rice", "carrots", "peas", "eggs", "soy sauce">>,
           "20 min", "Easy"),
    Recipe("Rice Bowl", <<"rice", "vegetables", "protein", "sauce">>, "25 min", "Easy")>>

AppleRecipes ==
  <<Recipe("Apple Crisp", <<"apples", "oats", "butter", "cinnamon">>, "30 min", "Medium"),
    Recipe("Apple Smoothie", <<"apples", "yogurt", "honey">>, "10 min", "Easy")>>

\* recipeDatabase[key] || []
recipeDatabase(key) ==
  CASE key = "yogurt" -> YogurtRecipes
    [] key = "carrots" -> CarrotRecipes
    [] key = "rice" -> RiceRecipes
    [] key = "apples" -> AppleRecipes
    [] OTHER -> <<>>

(***************************************************************************)
(* scoreRecipeMatch                                                        *)
(***************************************************************************)
\* userInventory.map(item => item.name.toLowerCase())
InventoryNames(inv) == [i \in 1..Len(inv) |-> toLowerCase(inv[i].name)]

\* mutant: the ingredient must equal an inventory name
IsMatchedExactly(ing, inventoryNames) ==
  \E j \in 1..Len(inventoryNames) : inventoryNames[j] = toLowerCase(ing)

\* inventoryNames.some(inv => inv.includes(ing.toLowerCase()))
IsMatched(ing, inventoryNames) ==
  \E j \in 1..Len(inventoryNames) : includes(inventoryNames[j], toLowerCase(ing))

RECURSIVE MatchedIngredients(_, _)
MatchedIngredients(ingredients, inventoryNames) ==
  IF ingredients = <<>> THEN <<>>
  ELSE (IF IsMatched(Head(ingredients), inventoryNames) THEN <<Head(ingredients)>> ELSE <<>>)
       \o MatchedIngredients(Tail(ingredients), inventoryNames)

\* mutant: the second filter compares the ingredient as written
RECURSIVE MissingIngredientsAsWritten(_, _)
MissingIngredientsAsWritten(ingredients, inventoryNames) ==
  IF ingredients = <<>> THEN <<>>
  ELSE (IF ~(\E j \in 1..Len(inventoryNames) : includes(inventoryNames[j], Head(ingredients)))
        THEN <<Head(ingredients)>> ELSE <<>>)
       \o MissingIngredientsAsWritten(Tail(ingredients), inventoryNames)

RECURSIVE MissingIngredients(_, _)
MissingIngredients(ingredients, inventoryNames) ==
  IF ingredients = <<>> THEN <<>>
  ELSE (IF ~IsMatched(Head(ingredients), inventoryNames) THEN <<Head(ingredients)>> ELSE <<>>)
       \o MissingIngredients(Tail(ingredients), inventoryNames)

\* Math.round(matched / total * 100); 0 / 0 is NaN
MatchScore(matchedCount, totalIngredients) ==
  IF totalIngredients = 0 THEN NaN ELSE Num(RoundDiv(matchedCount * 100, totalIngredients))

scoreRecipeMatch(recipe, userInventory) ==
  LET inventoryNames == InventoryNames(userInventory)
      matchedIngredients == MatchedIngredients(recipe.ingredients, inventoryNames)
  IN [recipe |-> recipe.name,
      matchScore |-> MatchScore(Len(matchedIngredients), Len(recipe.ingredients)),
      matchedIngredients |-> matchedIngredients,
      missingIngredients |-> MissingIngredients(recipe.ingredients, inventoryNames),
      name |-> recipe.name, ingredients |-> recipe.ingredients,
      time |-> recipe.time, difficulty |-> recipe.difficulty]

(***************************************************************************)
(* calculateUrgency.  daysLeft is a JavaScript number; a missing daysLeft  *)
(* (undefined) compares like NaN: every <= is false.                       *)
(***************************************************************************)
\* mutant: strict comparisons
calculateUrgencyStrict(daysLeft) ==
  IF ~daysLeft.nan /\ daysLeft.v < 1 THEN 100
  ELSE IF ~daysLeft.nan /\ daysLeft.v < 2 THEN 80
  ELSE IF ~daysLeft.nan /\ daysLeft.v < 3 THEN 60
  ELSE IF ~daysLeft.nan /\ daysLeft.v < 7 THEN 40
  ELSE 20

calculateUrgency(daysLeft) ==
  IF ~daysLeft.nan /\ daysLeft.v <= 1 THEN 100
  ELSE IF ~daysLeft.nan /\ daysLeft.v <= 2 THEN 80
  ELSE IF ~daysLeft.nan /\ daysLeft.v <= 3 THEN 60
  ELSE IF ~daysLeft.nan /\ daysLeft.v <= 7 THEN 40
  ELSE 20

(***************************************************************************)
(* generateMealPlan                                                        *)
(***************************************************************************)
MatchThreshold == 50

TopMeals == 5

\* (a, b) => new Date(a.expiry) - new Date(b.expiry) is negative
ExpiresBefore(a, b) == a.expiry < b.expiry

\* Array.prototype.sort is stable: the last element goes after the elements
\* that do not come after it
RECURSIVE InsertByExpiry(_, _)
InsertByExpiry(x, sorted) ==
  IF sorted = <<>> THEN <<x>>
  ELSE IF ExpiresBefore(x, Head(sorted)) THEN <<x>> \o sorted
  ELSE <<Head(sorted)>> \o InsertByExpiry(x, Tail(sorted))

RECURSIVE SortedByExpiry(_)
SortedByExpiry(userInventory) ==
  IF userInventory = <<>> THEN <<>>
  ELSE InsertByExpiry(userInventory[Len(userInventory)],
                      SortedByExpiry(SubSeq(userInventory, 1, Len(userInventory) - 1)))

\* mutant: userInventory.sort(...), which sorts the caller's array in place
InventoryAfterSortInPlace(userInventory) == SortedByExpiry(userInventory)

\* [...userInventory].sort(...): the copy is sorted, the caller's array is
\* left as it was
InventoryAfterSort(userInventory) == userInventory

\* mutant: the match score left out of the comparison
RanksBeforeByUrgencyOnly(a, b) == a.urgency > b.urgency

\* the comparator of Step 3: higher urgency first, then higher match score
RanksBefore(a, b) ==
  IF a.urgency # b.urgency THEN a.urgency > b.urgency
  ELSE a.matchScore.v > b.matchScore.v

RECURSIVE InsertByRank(_, _)
InsertByRank(x, sorted) ==
  IF sorted = <<>> THEN <<x>>
  ELSE IF RanksBefore(x, Head(sorted)) THEN <<x>> \o sorted
  ELSE <<Head(sorted)>> \o InsertByRank(x, Tail(sorted))

RECURSIVE SortedByRank(_)
SortedByRank(meals) ==
  IF meals = <<>> THEN <<>>
  ELSE InsertByRank(meals[Len(meals)], SortedByRank(SubSeq(meals, 1, Len(meals) - 1)))

\* mutant: a match of exactly 50 is dropped
QualifiesAbove(scoredRecipe) ==
  ~scoredRecipe.matchScore.nan /\ scoredRecipe.matchScore.v > 50

\* Only recommend if at least 50% of ingredients match
Qualifies(scoredRecipe) ==
  ~scoredRecipe.matchScore.nan /\ scoredRecipe.matchScore.v >= MatchThreshold

Meal(scoredRecipe, item) ==
  [recipe |-> scoredRecipe.recipe, matchScore |-> scoredRecipe.matchScore,
   matchedIngredients |-> scoredRecipe.matchedIngredients,
   missingIngredients |-> scoredRecipe.missingIngredients,
   name |-> scoredRecipe.name, ingredients |-> scoredRecipe.ingredients,
   time |-> scoredRecipe.time, difficulty |-> scoredRecipe.difficulty,
   urgency |-> calculateUrgency(item.daysLeft), focusItem |-> item.name]

RECURSIVE MealsOfItem(_, _, _)
MealsOfItem(item, itemRecipes, userInventory) ==
  IF itemRecipes = <<>> THEN <<>>
  ELSE LET scoredRecipe == scoreRecipeMatch(Head(itemRecipes), userInventory)
       IN (IF Qualifies(scoredRecipe) THEN <<Meal(scoredRecipe, item)>> ELSE <<>>)
          \o MealsOfItem(item, Tail(itemRecipes), userInventory)

RECURSIVE MealsOfItems(_, _)
MealsOfItems(items, userInventory) ==
  IF items = <<>> THEN <<>>
  ELSE MealsOfItem(Head(items), recipeDatabase(toLowerCase(Head(items).name)), userInventory)
       \o MealsOfItems(Tail(items), userInventory)

\* Steps 1 and 2: the matches found, in discovery order
RecommendedMeals(userInventory) ==
  MealsOfItems(SortedByExpiry(userInventory), userInventory)

\* mutant: Vegan checks dairy only
FitsPreferencesDairyOnly(meal, preferences) ==
  IF Len(preferences) = 0 THEN TRUE
  ELSE IF ArrayIncludes(preferences, "Vegetarian") /\ ArrayIncludes(meal.ingredients, "meat")
  THEN FALSE
  ELSE IF ArrayIncludes(preferences, "Vegan") /\ ArrayIncludes(meal.ingredients, "dairy")
  THEN FALSE
  ELSE TRUE

\* Step 4: the dietary filter
FitsPreferences(meal, preferences) ==
  IF Len(preferences) = 0 THEN TRUE
  ELSE IF ArrayIncludes(preferences, "Vegetarian") /\ ArrayIncludes(meal.ingredients, "meat")
  THEN FALSE
  ELSE IF ArrayIncludes(preferences, "Vegan")
          /\ (ArrayIncludes(meal.ingredients, "dairy")
              \/ ArrayIncludes(meal.ingredients, "meat"))
  THEN FALSE
  ELSE TRUE

RECURSIVE FilterMeals(_, _)
FilterMeals(meals, preferences) ==
  IF meals = <<>> THEN <<>>
  ELSE (IF FitsPreferences(Head(meals), preferences) THEN <<Head(meals)>> ELSE <<>>)
       \o FilterMeals(Tail(meals), preferences)

\* Steps 3 and 4: ranked, then filtered
FilteredMeals(userInventory, preferences) ==
  FilterMeals(SortedByRank(RecommendedMeals(userInventory)), preferences)

\* mutant: the count taken after the cut to five
generateMealPlanCountingReturned(userInventory, preferences) ==
  LET filteredMeals == Slice0(FilteredMeals(userInventory, preferences), TopMeals)
  IN [totalRecommendations |-> Len(filteredMeals),
      mealPlan |-> filteredMeals,
      summary |-> <<"Found", Len(filteredMeals), "recipes to use your expiring items">>]

generateMealPlan(userInventory, preferences) ==
  LET filteredMeals == FilteredMeals(userInventory, preferences)
  IN [totalRecommendations |-> Len(filteredMeals),
      mealPlan |-> Slice0(filteredMeals, TopMeals),
      summary |-> <<"Found", Len(filteredMeals), "recipes to use your expiring items">>]

(***************************************************************************)
(* generateWeeklyMealPlan                                                  *)
(***************************************************************************)
DefaultMealCount == 7

Weekdays ==
  <<"Monday", "Tuesday", "Wednesday", "Thursday", "Friday", "Saturday", "Sunday">>

\* mutant: an ingredient already listed is not counted again
AddToShoppingListOnce(list, ingredient) ==
  IF \E i \in 1..Len(list) : list[i].item = ingredient
  THEN list
  ELSE Append(list, [item |-> ingredient, quantity |-> 1])

\* shoppingList[ingredient]++ or = 1; a new key goes last
AddToShoppingList(list, ingredient) ==
  IF \E i \in 1..Len(list) : list[i].item = ingredient
  THEN [i \in 1..Len(list) |->
          IF list[i].item = ingredient
          THEN [list[i] EXCEPT !.quantity = @ + 1] ELSE list[i]]
  ELSE Append(list, [item |-> ingredient, quantity |-> 1])

RECURSIVE AddAll(_, _)
AddAll(list, ingredients) ==
  IF ingredients = <<>> THEN list
  ELSE AddAll(AddToShoppingList(list, Head(ingredients)), Tail(ingredients))

RECURSIVE ShoppingList(_, _)
ShoppingList(list, meals) ==
  IF meals = <<>> THEN list
  ELSE ShoppingList(AddAll(list, Head(meals).missingIngredients), Tail(meals))

generateWeeklyMealPlan(userInventory, mealCount) ==
  LET mealPlan == generateMealPlan(userInventory, <<>>)
      selectedMeals == Slice0(mealPlan.mealPlan, mealCount)
  IN [weeklyPlan |->
        [i \in 1..Len(selectedMeals) |->
           [day |-> Weekdays[i], meal |-> selectedMeals[i].recipe,
            time |-> selectedMeals[i].time, difficulty |-> selectedMeals[i].difficulty,
            focusItem |-> selectedMeals[i].focusItem]],
      shoppingList |-> ShoppingList(<<>>, selectedMeals),
      totalMeals |-> Len(selectedMeals)]

(***************************************************************************)
(* The stored data the engine is handed: log entries and inventory items.  *)
(***************************************************************************)
Entry(name, item, price, status, quantity) ==
  [name |-> name, item |-> item, price |-> price, status |-> status,
   quantity |-> quantity]

Item(name, item, price, quantity, expiry, daysLeft) ==
  [name |-> name, item |-> item, price |-> price, quantity |-> quantity,
   expiry |-> expiry, daysLeft |-> daysLeft]

SeqsUpTo(S, n) == UNION {[1..k -> S] : k \in 0..n}

Statuses == {"consumed", "wasted"}

\* logs that differ in status only, long enough for a score ending in .5
StatusLogs ==
  SeqsUpTo({Entry("Milk", "", 1200, s, 1) : s \in Statuses}, MaxLog)

FoodNames == {"Apple", "Carrot", "Egg", "Rice", "Milk", "Soda"}

\* logs that differ in the food named, by name or by item
NameLogs ==
  SeqsUpTo({Entry(n, "", 1000, "consumed", 1) : n \in FoodNames}
           \cup {Entry(n, "", 1000, "wasted", 1) : n \in {"Apple", "Soda"}}
           \cup {Entry("", "Grape Yogurt", 1000, "consumed", 1)}, MaxNameLog)

Prices == {1200, 2500, 332}

\* logs that differ in price, quantity and status
PriceLogs ==
  SeqsUpTo({Entry("Spinach", "", p, s, q) : p \in Prices, s \in Statuses, q \in 1..2},
           MaxPriceLog)

\* Scenario A: one wasted entry of 2.50 and one consumed entry of 1.20
ScenarioALog ==
  <<Entry("Spinach", "", 2500, "wasted", 1), Entry("Milk", "", 1200, "consumed", 1)>>

\* Scenario E: 5 consumed items, one per category
ScenarioELog ==
  <<Entry("Apple", "", 1000, "consumed", 1), Entry("Carrot", "", 1000, "consumed", 1),
    Entry("Egg", "", 1000, "consumed", 1), Entry("Rice", "", 1000, "consumed", 1),
    Entry("Milk", "", 1000, "consumed", 1)>>

\* long logs of consumed entries: the five foods of Scenario E in turn, a
\* number of uncategorised items followed by a number of fruits, or the five
\* foods of Scenario E followed by a number of uncategorised items
LongLogs ==
  {[i \in 1..k |-> ScenarioELog[((i - 1) % 5) + 1]] : k \in (1..MaxLongLog) \cup {LongestLog}}
  \cup {[i \in 1..(a + b) |->
          IF i <= a THEN Entry("Soda", "", 1000, "consumed", 1)
          ELSE Entry("Apple", "", 1000, "consumed", 1)] :
          a \in 0..MaxLongLog, b \in 0..MaxLongLog}
  \cup {ScenarioELog \o [i \in 1..a |-> Entry("Soda", "", 1000, "consumed", 1)] :
          a \in 1..MaxLongLog}

\* expiry instants around the reference midnight: a day before, half a day
\* before, at it, half a day after, two days after, two days and a half after
ExpiryTicks ==
  {-TicksPerDay, -1, 0, 1, 2 * TicksPerDay, 2 * TicksPerDay + 1}

\* Scenario B: expires the day after the reference date, price 1.00, quantity 2
ScenarioBItem == Item("", "Yogurt", 1000, 2, TicksPerDay, NaN)

PricedItems ==
  {Item("Yogurt", "", p, q, e, NaN) : p \in {1000, 332}, q \in 1..2, e \in ExpiryTicks}

PricedInventories == SeqsUpTo(PricedItems, MaxInv)

\* the reference dates handed in: midnight, later that day, the next midnight
Todays == {DefaultToday, DefaultToday + 1, DefaultToday + TicksPerDay}

\* the instants at which a call is made: the day of DefaultToday, the day after
Nows == {DefaultToday, DefaultToday + TicksPerDay}

Idle == [op |-> "idle"]

NoResult == [none |-> TRUE]

Init ==
  /\ call = Idle
  /\ result = NoResult
  /\ \/ /\ history \in StatusLogs \cup NameLogs \cup PriceLogs \cup LongLogs
        /\ inventory = <<ScenarioBItem>>
     \/ /\ history \in {<<>>, ScenarioALog}
        /\ inventory \in PricedInventories

(***************************************************************************)
(* One action per exported function: the call and the value returned.      *)
(***************************************************************************)
\* called without a reference date at the instant now, or with one (the
\* instant of the call then plays no part and is left at DefaultToday);
\* today is the value of the parameter todayString in the body
CalculateWasteMetrics ==
  /\ call.op = "idle"
  /\ \E now \in Nows, omitted \in BOOLEAN, todayString \in Todays :
       /\ IF omitted THEN todayString = DefaultToday ELSE now = DefaultToday
       /\ call' = [op |-> "calculateWasteMetrics", omitted |-> omitted, now |-> now,
                   today |-> TodayString(omitted, todayString, now)]
       /\ result' = calculateWasteMetrics(history, inventory,
                                          TodayString(omitted, todayString, now))
  /\ UNCHANGED <<history, inventory>>

CalculateSDGScore ==
  /\ call.op = "idle"
  /\ call' = [op |-> "calculateSDGScore"]
  /\ result' = calculateSDGScore(history)
  /\ UNCHANGED <<history, inventory>>

CalculateNutritionScore ==
  /\ call.op = "idle"
  /\ call' = [op |-> "calculateNutritionScore"]
  /\ result' = calculateNutritionScore(history)
  /\ UNCHANGED <<history, inventory>>

\* the current metrics are those of the whole log (as the profile passes
\* them) or those of its later half
GenerateWeeklyInsights ==
  /\ call.op = "idle"
  /\ \E currentMetrics \in
          {calculateSDGScore(history),
           calculateSDGScore(SliceFrom(history, CeilDiv(Len(history), 2)))} :
       /\ call' = [op |-> "generateWeeklyInsights", currentMetrics |-> currentMetrics]
       /\ result' = generateWeeklyInsights(history, currentMetrics)
  /\ UNCHANGED <<history, inventory>>

\* the metrics are those computed from the log
GenerateActionableRecommendations ==
  /\ call.op = "idle"
  /\ call' = [op |-> "generateActionableRecommendations",
              sdgMetrics |-> calculateSDGScore(history),
              nutritionMetrics |-> calculateNutritionScore(history)]
  /\ result' = generateActionableRecommendations(calculateSDGScore(history),
                                                 calculateNutritionScore(history))
  /\ UNCHANGED <<history, inventory>>

GenerateCompleteSDGProfile ==
  /\ call.op = "idle"
  /\ \E now \in Nows, omitted \in BOOLEAN, todayString \in Todays :
       /\ IF omitted THEN todayString = DefaultToday ELSE now = DefaultToday
       /\ call' = [op |-> "generateCompleteSDGProfile", omitted |-> omitted, now |-> now,
                   today |-> TodayString(omitted, todayString, now)]
       /\ result' = generateCompleteSDGProfile(history, inventory,
                                               TodayString(omitted, todayString, now))
  /\ UNCHANGED <<history, inventory>>

\* the caller has taken the value; the engine keeps nothing between calls
Return ==
  /\ call.op # "idle"
  /\ call' = Idle
  /\ result' = NoResult
  /\ UNCHANGED <<history, inventory>>

Next ==
  \/ CalculateWasteMetrics
  \/ CalculateSDGScore
  \/ CalculateNutritionScore
  \/ GenerateWeeklyInsights
  \/ GenerateActionableRecommendations
  \/ GenerateCompleteSDGProfile
  \/ Return

Spec == Init /\ [][Next]_vars

(***************************************************************************)
(* The analytics handed malformed records: log entries without a price,    *)
(* inventory items without a price or without a parsable expiry date.      *)
(***************************************************************************)
MaxBadLog == 2

MaxBadInv == 2

EntryWithoutPrice(name, status) ==
  [name |-> name, item |-> "", status |-> status, quantity |-> 1]

ItemWithoutPrice(name, expiry) ==
  [name |-> name, item |-> "", quantity |-> 2, expiry |-> expiry, daysLeft |-> NaN]

ItemWithoutExpiry(name, price) ==
  [name |-> name, item |-> "", price |-> price, quantity |-> 2, daysLeft |-> NaN]

MalformedLogs ==
  SeqsUpTo({Entry("Spinach", "", 2500, "wasted", 1), Entry("Milk", "", 1200, "consumed", 1),
            EntryWithoutPrice("Bread", "wasted"), EntryWithoutPrice("Egg", "consumed")},
           MaxBadLog)

MalformedInventories ==
  SeqsUpTo({Item("Yogurt", "", 1000, 2, TicksPerDay, NaN),
            ItemWithoutPrice("Carrots", TicksPerDay),
            ItemWithoutPrice("Rice", 8 * TicksPerDay),
            ItemWithoutExpiry("Apples", 1500)}, MaxBadInv)

InitMalformed ==
  /\ call = Idle
  /\ result = NoResult
  /\ history \in MalformedLogs
  /\ inventory \in MalformedInventories

NextMalformed ==
  \/ CalculateWasteMetrics
  \/ GenerateCompleteSDGProfile
  \/ Return

SpecMalformed == InitMalformed /\ [][NextMalformed]_vars

(***************************************************************************)
(* The functions of arguments alone: generateActionableRecommendations     *)
(* over metrics of any shape, calculateUrgency over any daysLeft.          *)
(***************************************************************************)
MaxWasted == 3

NutritionScores == {NaN} \cup {Num(n) : n \in {0, 50, 75, 84, 85, 100}}

SuggestionLists ==
  {<<>>, <<GreatVariety>>, <<"Add dairy for calcium">>, GenericSuggestions}

AnySDGMetrics ==
  {[sdgScore |-> s, successRate |-> s, wastedCount |-> w, consumedCount |-> 0,
    totalItems |-> w] : s \in 0..100, w \in 0..MaxWasted}

AnyNutritionMetrics ==
  {[nutritionScore |-> n,
    categories |-> [NoCategories EXCEPT !.vegetables = v, !.proteins = p],
    totalConsumed |-> v + p, suggestions |-> sg] :
     n \in NutritionScores, v \in 0..2, p \in 0..2, sg \in SuggestionLists}

MaxDays == 9

InitArgs ==
  /\ call = Idle
  /\ result = NoResult
  /\ history = <<>>
  /\ inventory = <<>>

RecommendFromMetrics ==
  /\ call.op = "idle"
  /\ \E sdgMetrics \in AnySDGMetrics, nutritionMetrics \in AnyNutritionMetrics :
       /\ call' = [op |-> "generateActionableRecommendations",
                   sdgMetrics |-> sdgMetrics, nutritionMetrics |-> nutritionMetrics]
       /\ result' = generateActionableRecommendations(sdgMetrics, nutritionMetrics)
  /\ UNCHANGED <<history, inventory>>

CalculateUrgency ==
  /\ call.op = "idle"
  /\ \E daysLeft \in {NaN} \cup {Num(d) : d \in (-MaxDays)..MaxDays} :
       /\ call' = [op |-> "calculateUrgency", daysLeft |-> daysLeft]
       /\ result' = calculateUrgency(daysLeft)
  /\ UNCHANGED <<history, inventory>>

NextArgs ==
  \/ RecommendFromMetrics
  \/ CalculateUrgency
  \/ Return

SpecArgs == InitArgs /\ [][NextArgs]_vars

(***************************************************************************)
(* The Recipe Matching Engine.                                             *)
(***************************************************************************)
MaxMealInv == 2

\* daysLeft is stored beside expiry
StockItems ==
  {Item(n, "", 1000, 1, TicksPerDay, Num(1)) : n \in {"Yogurt", "Apples", "Berries"}}
  \cup {Item(n, "", 1000, 1, 3 * TicksPerDay, Num(3)) : n \in {"Yogurt", "Carrots", "Rice"}}

\* Scenario D: inventory names rice and eggs
ScenarioDInventory ==
  <<Item("rice", "", 1000, 1, TicksPerDay, Num(1)),
    Item("eggs", "", 1000, 1, TicksPerDay, Num(1))>>

\* a full pantry, in which every catalog key is stocked
Pantry ==
  <<Item("Rice", "", 2500, 5, 8 * TicksPerDay, Num(8)),
    Item("Apples", "", 1500, 4, 4 * TicksPerDay, Num(4)),
    Item("Yogurt", "", 1000, 2, TicksPerDay, Num(1)),
    Item("Carrots", "", 800, 1, 7 * TicksPerDay, Num(7)),
    Item("Berries", "", 1000, 1, 2 * TicksPerDay, Num(2)),
    Item("eggs", "", 1000, 6, 3 * TicksPerDay, Num(3))>>

\* the pantry with garlic and oil besides: seven recipes qualify
LargePantry ==
  Pantry \o <<Item("Garlic", "", 500, 1, 5 * TicksPerDay, Num(5)),
              Item("Olive Oil", "", 4000, 1, 9 * TicksPerDay, Num(9))>>

\* a kitchen shelf from which two of the three qualifying recipes lack soy
\* sauce
ShelfWithoutSoySauce ==
  <<Item("Rice", "", 2500, 5, 8 * TicksPerDay, Num(8)),
    Item("Carrots", "", 800, 1, 7 * TicksPerDay, Num(7)),
    Item("eggs", "", 1000, 6, 3 * TicksPerDay, Num(3)),
    Item("Garlic", "", 500, 1, 5 * TicksPerDay, Num(5)),
    Item("Olive Oil", "", 4000, 1, 9 * TicksPerDay, Num(9))>>

\* the same pantry with no daysLeft stored
PantryWithoutDaysLeft == [i \in 1..Len(Pantry) |-> [Pantry[i] EXCEPT !.daysLeft = NaN]]

\* recipes handed to scoreRecipeMatch that are not in the catalog
ScenarioDRecipe == Recipe("Egg Rice", <<"rice", "peas", "egg">>, "10 min", "Easy")

OtherRecipes ==
  {ScenarioDRecipe,
   Recipe("Nothing", <<>>, "0 min", "Easy"),
   Recipe("Fruit Bowl", <<"Apple", "BERRIES", "apple">>, "5 min", "Easy"),
   Recipe("Omelette", <<"eggs", "egg">>, "5 min", "Easy")}

SeqRange(s) == {s[i] : i \in 1..Len(s)}

CatalogRecipes ==
  SeqRange(YogurtRecipes) \cup SeqRange(CarrotRecipes) \cup SeqRange(RiceRecipes)
  \cup SeqRange(AppleRecipes)

PreferenceLists ==
  {<<>>, <<"Vegetarian">>, <<"Vegan">>, <<"Gluten-Free">>, <<"Vegetarian", "Vegan">>}

InitMeal ==
  /\ call = Idle
  /\ result = NoResult
  /\ history = <<>>
  /\ inventory \in SeqsUpTo(StockItems, MaxMealInv)
                   \cup {SubSeq(Pantry, 1, k) : k \in 3..Len(Pantry)}
                   \cup {ScenarioDInventory, PantryWithoutDaysLeft, LargePantry,
                         ShelfWithoutSoySauce}

ScoreRecipeMatch ==
  /\ call.op = "idle"
  /\ \E recipe \in CatalogRecipes \cup OtherRecipes :
       /\ call' = [op |-> "scoreRecipeMatch", recipe |-> recipe]
       /\ result' = scoreRecipeMatch(recipe, inventory)
  /\ UNCHANGED <<history, inventory>>

GenerateMealPlan ==
  /\ call.op = "idle"
  /\ \E preferences \in PreferenceLists :
       /\ call' = [op |-> "generateMealPlan", preferences |-> preferences]
       /\ result' = generateMealPlan(inventory, preferences)
  /\ inventory' = InventoryAfterSort(inventory)
  /\ UNCHANGED history

GenerateWeeklyMealPlan ==
  /\ call.op = "idle"
  /\ \E mealCount \in {1, 3, DefaultMealCount} :
       /\ call' = [op |-> "generateWeeklyMealPlan", mealCount |-> mealCount]
       /\ result' = generateWeeklyMealPlan(inventory, mealCount)
  /\ inventory' = InventoryAfterSort(inventory)
  /\ UNCHANGED history

NextMeal ==
  \/ ScoreRecipeMatch
  \/ GenerateMealPlan
  \/ GenerateWeeklyMealPlan
  \/ Return

SpecMeal == InitMeal /\ [][NextMeal]_vars

(***************************************************************************)
(* Step 4 of generateMealPlan on its own: the dietary filter applied to    *)
(* ranked matches of any ingredients.  No recipe of the catalog names meat  *)
(* or dairy, so the filter of a whole call never excludes anything.         *)
(***************************************************************************)
MaxDietMeals == 2

DietRecipes ==
  {Recipe("Beef Stew", <<"carrots", "meat">>, "60 min", "Medium"),
   Recipe("Cheese Toast", <<"dairy", "bread">>, "5 min", "Easy"),
   Recipe("Meatball Sub", <<"meatballs", "bread">>, "20 min", "Easy"),
   Recipe("Mixed Grill", <<"Meat", "Dairy">>, "30 min", "Medium"),
   Recipe("Rice Bowl", <<"rice", "vegetables", "protein", "sauce">>, "25 min", "Easy")}

\* matches as Step 2 builds them
DietMeals == {Meal(scoreRecipeMatch(r, Pantry), Pantry[1]) : r \in DietRecipes}

DietPreferences == PreferenceLists \cup {<<"Gluten-Free", "Vegan">>, <<"vegetarian">>}

ApplyDietaryFilter ==
  /\ call.op = "idle"
  /\ \E meals \in SeqsUpTo(DietMeals, MaxDietMeals), preferences \in DietPreferences :
       /\ call' = [op |-> "dietaryFilter", meals |-> meals, preferences |-> preferences]
       /\ result' = FilterMeals(meals, preferences)
  /\ UNCHANGED <<history, inventory>>

InitDiet ==
  /\ call = Idle
  /\ result = NoResult
  /\ history = <<>>
  /\ inventory \in {<<>>, ScenarioDInventory, Pantry}

NextDiet ==
  \/ GenerateMealPlan
  \/ ApplyDietaryFilter
  \/ Return

SpecDiet == InitDiet /\ [][NextDiet]_vars

(***************************************************************************)
(* The whole engine on one user's data: every exported function of the two *)
(* services, called in any order on the same log and inventory.            *)
(***************************************************************************)
EngineInventories ==
  {SubSeq(Pantry, 1, k) : k \in 0..Len(Pantry)}
  \cup {ScenarioDInventory, PantryWithoutDaysLeft}

InitEngine ==
  /\ call = Idle
  /\ result = NoResult
  /\ history \in {<<>>, ScenarioALog, ScenarioELog}
  /\ inventory \in EngineInventories

NextEngine ==
  \/ CalculateWasteMetrics
  \/ CalculateSDGScore
  \/ CalculateNutritionScore
  \/ GenerateWeeklyInsights
  \/ GenerateActionableRecommendations
  \/ GenerateCompleteSDGProfile
  \/ ScoreRecipeMatch
  \/ GenerateMealPlan
  \/ GenerateWeeklyMealPlan
  \/ Return

SpecEngine == InitEngine /\ [][NextEngine]_vars

(***************************************************************************)
(* Properties.  Each is stated on the call made and the value returned,    *)
(* with the expected value written out independently of the operators      *)
(* above.                                                                  *)
(***************************************************************************)
\* n is a / b rounded to the nearest integer, half rounding up (b > 0)
IsRoundHalfUp(n, a, b) == 2 * n * b - b <= 2 * a /\ 2 * a < 2 * n * b + b

CountStatus(h, status) == Cardinality({i \in 1..Len(h) : h[i].status = status})

\* the elements of seq at the indices in S, in order
RECURSIVE Pick(_, _)
Pick(seq, S) ==
  IF seq = <<>> THEN <<>>
  ELSE Pick(SubSeq(seq, 1, Len(seq) - 1), S)
       \o (IF Len(seq) \in S THEN <<seq[Len(seq)]>> ELSE <<>>)

\* C1: for a non-empty log of consumed and wasted entries calculateSDGScore
\* returns sdgScore = successRate = round(consumedCount / totalItems * 100),
\* half rounding up, totalItems = the log's length, sdgScore in [0, 100];
\* 3 wasted and 3 consumed entries give 50.
C1_SDGScoreIsRoundedRate ==
  (call.op = "calculateSDGScore" /\ Len(history) > 0
   /\ \A i \in 1..Len(history) : history[i].status \in {"consumed", "wasted"})
  => /\ result.sdgScore = result.successRate
     /\ result.totalItems = Len(history)
     /\ result.consumedCount = CountStatus(history, "consumed")
     /\ result.wastedCount = CountStatus(history, "wasted")
     /\ IsRoundHalfUp(result.sdgScore, 100 * CountStatus(history, "consumed"), Len(history))
     /\ result.sdgScore \in 0..100
     /\ (CountStatus(history, "consumed") = 3 /\ CountStatus(history, "wasted") = 3)
        => (result.sdgScore = 50 /\ result.successRate = 50)

\* 1 consumed entry of 8: 12.5 is rounded up to 13
C1_Witness ==
  /\ call.op = "calculateSDGScore"
  /\ Len(history) = 8
  /\ CountStatus(history, "consumed") = 1
  /\ result.sdgScore = 13

\* C2: calculateSDGScore on the empty log returns sdgScore 50 and
\* successRate, wastedCount, consumedCount, totalItems all 0.
C2_EmptyLogBaseline ==
  (call.op = "calculateSDGScore" /\ Len(history) = 0)
  => result = [sdgScore |-> 50, successRate |-> 0, wastedCount |-> 0,
               consumedCount |-> 0, totalItems |-> 0]

C2_Witness ==
  /\ call.op = "calculateSDGScore"
  /\ history = <<>>
  /\ result.sdgScore = 50
  /\ result.totalItems = 0

\* C3: for every log the nutritionScore of calculateNutritionScore, and the
\* nutrition.score of the profile of generateCompleteSDGProfile, is a number
\* in [0, 100].
C3_NutritionScoreInRange ==
  /\ call.op = "calculateNutritionScore"
     => (~result.nutritionScore.nan /\ result.nutritionScore.v \in 0..100)
  /\ call.op = "generateCompleteSDGProfile"
     => (~result.nutrition.score.nan /\ result.nutrition.score.v \in 0..100)

\* k occurs in s: after some i characters of s come the characters of k
IsSubstring(k, s) ==
  \E i \in 0..Len(s) : Len(k) <= Len(s) - i /\ SubSeq(s, i + 1, i + Len(k)) = k

\* the indices of the ingredients that some inventory name contains,
\* case-insensitively
MatchedIndices(ingredients, inv) ==
  LET names == {toLowerCase(inv[k].name) : k \in 1..Len(inv)}
  IN {j \in 1..Len(ingredients) :
        \E n \in names : IsSubstring(toLowerCase(ingredients[j]), n)}

\* C4: matchedIngredients and missingIngredients of scoreRecipeMatch
\* partition recipe.ingredients: each is a subsequence in recipe order, the
\* two are taken at complementary positions, no ingredient is in both, every
\* ingredient is in one, and the lengths add up.
C4_MatchedMissingPartition ==
  call.op = "scoreRecipeMatch"
  => LET ing == call.recipe.ingredients
         matched == result.matchedIngredients
         missing == result.missingIngredients
     IN /\ Len(matched) + Len(missing) = Len(ing)
        /\ \E S \in SUBSET (1..Len(ing)) :
             /\ matched = Pick(ing, S)
             /\ missing = Pick(ing, (1..Len(ing)) \ S)
        /\ SeqRange(matched) \cap SeqRange(missing) = {}
        /\ SeqRange(matched) \cup SeqRange(missing) = SeqRange(ing)

\* ingredients that differ from the inventory names in case, some matched
\* and some missing
C4_Witness ==
  /\ call.op = "scoreRecipeMatch"
  /\ call.recipe.name = "Fruit Bowl"
  /\ result.matchedIngredients = <<"Apple", "apple">>
  /\ result.missingIngredients = <<"BERRIES">>

\* the catalog recipes an inventory item leads to, with the item's name
KeyedRecipes(inv) ==
  {p \in CatalogRecipes \X {inv[k].name : k \in 1..Len(inv)} :
     ArrayIncludes(recipeDatabase(toLowerCase(p[2])), p[1])}

\* round(matched / total * 100) >= 50, that is matched / total >= 0.495
ScoresHalf(recipe, inv) ==
  200 * Cardinality(MatchedIndices(recipe.ingredients, inv)) >= 99 * Len(recipe.ingredients)

\* C5: every match in the mealPlan of generateMealPlan has matchScore >= 50
\* (at least half of its ingredients are matched), and every catalog recipe
\* keyed by the lower-cased name of an inventory item that scores >= 50
\* against the full inventory is among the matches found before filtering
\* and truncation.
C5_MealPlanThreshold ==
  call.op = "generateMealPlan"
  => /\ \A i \in 1..Len(result.mealPlan) :
          /\ ~result.mealPlan[i].matchScore.nan
          /\ result.mealPlan[i].matchScore.v >= 50
          /\ 2 * Len(result.mealPlan[i].matchedIngredients)
               >= Len(result.mealPlan[i].ingredients)
     /\ LET found == RecommendedMeals(inventory)
            pairs == {<<found[i].recipe, found[i].focusItem>> : i \in 1..Len(found)}
        IN \A p \in KeyedRecipes(inventory) :
             ScoresHalf(p[1], inventory) => <<p[1].name, p[2]>> \in pairs

\* a recipe at exactly 50 is in the plan and a keyed recipe below 50 is not
C5_Witness ==
  /\ call.op = "generateMealPlan"
  /\ \E i \in 1..Len(result.mealPlan) : result.mealPlan[i].matchScore.v = 50
  /\ \E p \in KeyedRecipes(inventory) :
       /\ ~ScoresHalf(p[1], inventory)
       /\ \A i \in 1..Len(result.mealPlan) : result.mealPlan[i].recipe # p[1].name

\* C6: generateActionableRecommendations returns at most 3 recommendations
\* and an estimatedNewScore of at most 100, for SDG metrics with sdgScore in
\* [0, 100] and any nutrition metrics.
C6_RecommendationBounds ==
  (call.op = "generateActionableRecommendations" /\ call.sdgMetrics.sdgScore \in 0..100)
  => /\ Len(result.recommendations) <= 3
     /\ result.estimatedNewScore <= 100

\* all four candidates are proposed and the projected score passes 100
C6_Witness ==
  /\ call.op = "generateActionableRecommendations"
  /\ call.sdgMetrics.wastedCount > 0
  /\ call.sdgMetrics.sdgScore < 100
  /\ ~call.nutritionMetrics.nutritionScore.nan
  /\ call.nutritionMetrics.nutritionScore.v < 85
  /\ call.nutritionMetrics.categories.vegetables < 2
  /\ call.nutritionMetrics.categories.proteins < 2
  /\ call.sdgMetrics.sdgScore + result.potentialImprovement > 100
  /\ Len(result.recommendations) = 3
  /\ result.estimatedNewScore = 100

\* the urgency table of the specification
UrgencyTable(d) ==
  IF d <= 1 THEN 100
  ELSE IF d = 2 THEN 80
  ELSE IF d = 3 THEN 60
  ELSE IF d <= 7 THEN 40
  ELSE 20

\* C7: for every integer daysLeft calculateUrgency returns 100 when
\* daysLeft <= 1, 80 at 2, 60 at 3, 40 from 4 to 7 and 20 above 7; the value
\* is one of {100, 80, 60, 40, 20} and never increases with daysLeft.
C7_UrgencyTable ==
  (call.op = "calculateUrgency" /\ ~call.daysLeft.nan)
  => /\ result = UrgencyTable(call.daysLeft.v)
     /\ result \in {100, 80, 60, 40, 20}
     /\ \A d \in call.daysLeft.v..MaxDays : calculateUrgency(Num(d)) <= result
     /\ \A d \in (-MaxDays)..call.daysLeft.v : calculateUrgency(Num(d)) >= result

\* an overdue item gets the highest urgency
C7_Witness ==
  /\ call.op = "calculateUrgency"
  /\ ~call.daysLeft.nan
  /\ call.daysLeft.v < 0
  /\ result = 100

\* C10: for a recipe with at least one ingredient scoreRecipeMatch counts an
\* ingredient as matched iff its lower-cased form is a substring of the
\* lower-cased name of some inventory item, and returns matchScore =
\* round(matchedCount / totalIngredients * 100), an integer in [0, 100];
\* ingredients rice, peas, egg against inventory names rice, eggs give 67
\* and missingIngredients = [peas].
C10_SubstringMatchScore ==
  (call.op = "scoreRecipeMatch" /\ Len(call.recipe.ingredients) >= 1)
  => LET ing == call.recipe.ingredients
         M == MatchedIndices(ing, inventory)
     IN /\ result.matchedIngredients = Pick(ing, M)
        /\ result.missingIngredients = Pick(ing, (1..Len(ing)) \ M)
        /\ ~result.matchScore.nan
        /\ IsRoundHalfUp(result.matchScore.v, 100 * Cardinality(M), Len(ing))
        /\ result.matchScore.v \in 0..100
        /\ (call.recipe = ScenarioDRecipe /\ inventory = ScenarioDInventory)
           => (result.matchScore.v = 67 /\ result.missingIngredients = <<"peas">>)

\* Scenario D: egg is matched by eggs
C10_Witness ==
  /\ call.op = "scoreRecipeMatch"
  /\ call.recipe = ScenarioDRecipe
  /\ inventory = ScenarioDInventory
  /\ result.matchedIngredients = <<"rice", "egg">>
  /\ result.matchScore.v = 67

\* C11: for a log with at least one consumed entry calculateNutritionScore
\* returns nutritionScore = round(sum over the five categories of
\* min(count / maxPerCategory * 100, 100) / 5) with maxPerCategory =
\* ceil(consumedCount / 5), and totalConsumed = consumedCount; 5 consumed
\* items, one per category, give 100 and the positive-reinforcement message
\* as the only suggestion.
C11_NutritionScoreFormula ==
  (call.op = "calculateNutritionScore" /\ CountStatus(history, "consumed") >= 1)
  => LET consumedCount == CountStatus(history, "consumed")
         c == result.categories
         m == CHOOSE k \in 1..consumedCount : 5 * (k - 1) < consumedCount /\ consumedCount <= 5 * k
         capped == Min(c.fruits, m) + Min(c.vegetables, m) + Min(c.proteins, m)
                   + Min(c.grains, m) + Min(c.dairy, m)
     IN /\ result.totalConsumed = consumedCount
        /\ ~result.nutritionScore.nan
        /\ IsRoundHalfUp(result.nutritionScore.v, 100 * capped, 5 * m)
        /\ (Len(history) = 5 /\ consumedCount = 5 /\ c = [fruits |-> 1, vegetables |-> 1,
                                                        proteins |-> 1, grains |-> 1,
                                                        dairy |-> 1])
           => /\ result.nutritionScore.v = 100
              /\ result.suggestions = <<"Great variety! Keep it up!">>

\* 11 consumed items of which one fruit: maxPerCategory is 3 and the score
\* round(33.33 / 5) = 7
C11_Witness ==
  /\ call.op = "calculateNutritionScore"
  /\ CountStatus(history, "consumed") = 11
  /\ result.categories.fruits = 1
  /\ result.nutritionScore.v = 7

\* the fields of a record that are missing or unusable
MalformedFields(r, required) == {f \in required : ~HasField(r, f)}

MalformedInputFields ==
  UNION {MalformedFields(history[i], {"price", "status"}) : i \in 1..Len(history)}
  \cup UNION {MalformedFields(inventory[i], {"price", "expiry", "quantity"}) :
                i \in 1..Len(inventory)}

\* C12: when a log entry or an inventory item handed to the engine is
\* malformed (missing price, unparsable expiry date), the operation ends in
\* an InvalidInputError outcome naming the offending field; it returns no
\* aggregate computed from the malformed record.
C12_MalformedInputRejected ==
  (call.op \in {"calculateWasteMetrics", "generateCompleteSDGProfile"}
   /\ MalformedInputFields # {})
  => /\ HasField(result, "error")
     /\ result.error = "InvalidInputError"
     /\ result.field \in MalformedInputFields

\* the sum of f over the indices in S
RECURSIVE SumAt(_, _)
SumAt(f, S) ==
  IF S = {} THEN 0
  ELSE LET i == CHOOSE x \in S : TRUE IN f[i] + SumAt(f, S \ {i})

WastedIndices(h) == {i \in 1..Len(h) : h[i].status = "wasted"}

\* the sum of price over the wasted entries, in thousandths
WastedPriceTotal(h) == SumAt([i \in 1..Len(h) |-> h[i].price], WastedIndices(h))

\* x is y rounded to 2 decimals: a multiple of 0.01 at most 0.005 away
IsRoundedTo2(x, y) == x % 10 = 0 /\ x - y <= 5 /\ y - x <= 5

\* C8 as stated: totalWastedMoney equals the sum of price over the wasted
\* entries, whatever the prices.
C8_TotalWastedIsExactSum ==
  call.op = "calculateWasteMetrics"
  => /\ result.totalWastedMoney = WastedPriceTotal(history)
     /\ (history = ScenarioALog /\ inventory = <<>>)
        => (result.totalWastedMoney = 2500 /\ result.riskValue = 0)

\* C8 as amended: totalWastedMoney is the sum of price over the wasted
\* entries rounded to 2 decimals, hence that sum itself when the prices have
\* at most 2 decimals; quantity is not multiplied in, consumed entries add
\* nothing, and neither the inventory nor the reference date matters; one
\* wasted entry of 2.50 and one consumed entry of 1.20 with an empty
\* inventory give totalWastedMoney = 2.50 and riskValue = 0.
C8_TotalWastedIsRoundedSum ==
  call.op = "calculateWasteMetrics"
  => /\ IsRoundedTo2(result.totalWastedMoney, WastedPriceTotal(history))
     /\ (\A i \in WastedIndices(history) : history[i].price % 10 = 0)
        => result.totalWastedMoney = WastedPriceTotal(history)
     /\ (history = ScenarioALog /\ inventory = <<>>)
        => (result.totalWastedMoney = 2500 /\ result.riskValue = 0)

\* a wasted entry of quantity 2 beside a consumed entry
C8_Witness ==
  /\ call.op = "calculateWasteMetrics"
  /\ Len(history) = 2
  /\ history[1].status = "wasted" /\ history[1].quantity = 2 /\ history[1].price = 1200
  /\ history[2].status = "consumed"
  /\ result.totalWastedMoney = 1200

\* d = ceil(delta / TicksPerDay)
IsCeilDays(d, delta) == (d - 1) * TicksPerDay < delta /\ delta <= d * TicksPerDay

\* the indices of the items that expire within the risk window of 2 days
RiskIndices(inv, today) ==
  {i \in 1..Len(inv) : \E d \in 1..2 : IsCeilDays(d, inv[i].expiry - today)}

\* price * quantity of each item
ItemValues(inv) == [i \in 1..Len(inv) |-> inv[i].price * inv[i].quantity]

\* the risk item expected of each inventory item in the risk window
ExpectedRiskItems(inv, today) ==
  [i \in 1..Len(inv) |->
     [name |-> IF inv[i].name # "" THEN inv[i].name ELSE inv[i].item,
      daysLeft |-> IF IsCeilDays(1, inv[i].expiry - today) THEN 1 ELSE 2,
      riskPrice |-> ItemValues(inv)[i]]]

\* C9 as stated: riskItems holds, in inventory order, exactly the items with
\* 0 < daysLeft <= 2, and riskValue equals the sum of price * quantity over
\* them, whatever the prices.
C9_RiskValueIsExactSum ==
  call.op = "calculateWasteMetrics"
  => LET R == RiskIndices(inventory, call.today)
     IN /\ result.riskItems = Pick(ExpectedRiskItems(inventory, call.today), R)
        /\ result.riskValue = SumAt(ItemValues(inventory), R)
        /\ result.riskValue >= 0

\* C9 as amended: an item is in riskItems iff its daysLeft =
\* ceil((expiry - referenceDate) / 1 day) satisfies 0 < daysLeft <= 2; items
\* due today, overdue or with daysLeft >= 3 are left out; riskItems keeps the
\* inventory order; riskValue is the sum of price * quantity over the
\* riskItems rounded to 2 decimals (that sum itself when the prices have at
\* most 2 decimals) and is >= 0; an item expiring the day after the
\* reference date with price 1.00 and quantity 2 gives daysLeft = 1 and
\* riskValue = 2.00.
C9_RiskWindow ==
  call.op = "calculateWasteMetrics"
  => LET R == RiskIndices(inventory, call.today)
     IN /\ result.riskItems = Pick(ExpectedRiskItems(inventory, call.today), R)
        /\ \A i \in 1..Len(inventory) :
             (inventory[i].expiry <= call.today
              \/ inventory[i].expiry - call.today > 2 * TicksPerDay) => i \notin R
        /\ IsRoundedTo2(result.riskValue, SumAt(ItemValues(inventory), R))
        /\ (\A i \in R : inventory[i].price % 10 = 0)
           => result.riskValue = SumAt(ItemValues(inventory), R)
        /\ result.riskValue >= 0
        /\ (inventory = <<ScenarioBItem>> /\ call.today = DefaultToday)
           => /\ Len(result.riskItems) = 1
              /\ result.riskItems[1].daysLeft = 1
              /\ result.riskValue = 2000

\* of two items the first is due at the reference instant and left out, the
\* second expires within two days and is kept
C9_Witness ==
  /\ call.op = "calculateWasteMetrics"
  /\ Len(inventory) = 2
  /\ inventory[1].expiry = call.today
  /\ inventory[2].expiry = call.today + 2 * TicksPerDay
  /\ inventory[2].quantity = 2
  /\ Len(result.riskItems) = 1
  /\ result.riskItems[1].daysLeft = 2
  /\ result.riskValue = 2000

\* C13: when calculateWasteMetrics or generateCompleteSDGProfile is called
\* without a reference date, daysLeft is derived from the instant of the
\* call: the risk items are those within the risk window of that instant.
C13_DefaultDateIsNow ==
  /\ (call.op = "calculateWasteMetrics" /\ call.omitted)
     => result.riskItems
          = Pick(ExpectedRiskItems(inventory, call.now), RiskIndices(inventory, call.now))
  /\ (call.op = "generateCompleteSDGProfile" /\ call.omitted)
     => result.waste.riskItems
          = Pick(ExpectedRiskItems(inventory, call.now), RiskIndices(inventory, call.now))

\* C14: no operation mutates its inputs: whatever is called, the log (its
\* entries, their status and their order) and the inventory (its items and
\* their order, the expiry sort notwithstanding) are after the call what
\* they were before it.
C14_InputsUnchanged == [][history' = history /\ inventory' = inventory]_vars

\* a meal plan made from an inventory that is not in expiry order
C14_Witness ==
  /\ call.op = "generateMealPlan"
  /\ inventory = Pantry
  /\ SortedByExpiry(inventory) # inventory
  /\ Len(result.mealPlan) > 0

\* the rule of the dietary tags: Vegetarian excludes the token meat, Vegan
\* the tokens meat and dairy
Excluded(meal, preferences) ==
  \/ /\ "Vegetarian" \in SeqRange(preferences)
     /\ "meat" \in SeqRange(meal.ingredients)
  \/ /\ "Vegan" \in SeqRange(preferences)
     /\ {"meat", "dairy"} \cap SeqRange(meal.ingredients) # {}

\* C15: the dietary filter excludes a ranked match iff Vegetarian is among
\* the preferences and its ingredient list contains the exact token "meat",
\* or Vegan is and the list contains "meat" or "dairy"; the survivors keep
\* their relative order; Gluten-Free excludes nothing, so generateMealPlan
\* returns for [Gluten-Free] what it returns for no preference; the plan is
\* the head of the filtered ranking.
C15_DietaryFilter ==
  /\ call.op = "dietaryFilter"
     => result = Pick(call.meals,
                      {i \in 1..Len(call.meals) : ~Excluded(call.meals[i], call.preferences)})
  /\ call.op = "generateMealPlan"
     => LET ranked == SortedByRank(RecommendedMeals(inventory))
            kept == {i \in 1..Len(ranked) : ~Excluded(ranked[i], call.preferences)}
        IN /\ result.mealPlan = Slice0(Pick(ranked, kept), 5)
           /\ call.preferences = <<"Gluten-Free">>
              => result = generateMealPlan(inventory, <<>>)

\* a vegan filter drops the match with meat and keeps the one whose
\* ingredient merely contains the letters of meat
C15_Witness ==
  /\ call.op = "dietaryFilter"
  /\ call.preferences = <<"Vegan">>
  /\ Len(call.meals) = 2
  /\ call.meals[1].recipe = "Beef Stew"
  /\ call.meals[2].recipe = "Meatball Sub"
  /\ result = <<call.meals[2]>>

\* the item and catalog recipe pairs that pass the threshold and the filter
QualifyingPairs(inv, preferences) ==
  {p \in (1..Len(inv)) \X CatalogRecipes :
     /\ ArrayIncludes(recipeDatabase(toLowerCase(inv[p[1]].name)), p[2])
     /\ ScoresHalf(p[2], inv)
     /\ ~Excluded(p[2], preferences)}

\* C16: generateMealPlan returns as mealPlan the first min(5, k) matches of
\* the ranked and filtered list, k being the number of matches that pass the
\* threshold and the filter, and totalRecommendations = k, which can exceed
\* the length of mealPlan.
C16_TopFiveOfAll ==
  call.op = "generateMealPlan"
  => LET all == FilteredMeals(inventory, call.preferences)
         k == Cardinality(QualifyingPairs(inventory, call.preferences))
     IN /\ Len(all) = k
        /\ result.totalRecommendations = k
        /\ Len(result.mealPlan) = Min(5, k)
        /\ \A i \in 1..Len(result.mealPlan) : result.mealPlan[i] = all[i]

\* seven recipes qualify and five are returned
C16_Witness ==
  /\ call.op = "generateMealPlan"
  /\ inventory = LargePantry
  /\ result.totalRecommendations = 7
  /\ Len(result.mealPlan) = 5

\* C17: generateWeeklyMealPlan(inventory, N) selects the top min(N, k) meals
\* of the ranking, k being the number of qualifying matches, and gives the
\* i-th of them the i-th weekday from Monday; totalMeals is their number, so
\* 7 or more qualifying matches give a plan of 7 days ending on Sunday.
C17_WeeklyPlanTopN ==
  call.op = "generateWeeklyMealPlan"
  => LET ranked == SortedByRank(RecommendedMeals(inventory))
         k == Cardinality(QualifyingPairs(inventory, <<>>))
         n == Min(call.mealCount, k)
     IN /\ result.totalMeals = n
        /\ Len(result.weeklyPlan) = n
        /\ \A i \in 1..Len(result.weeklyPlan) :
             /\ result.weeklyPlan[i].day = Weekdays[i]
             /\ result.weeklyPlan[i].meal = ranked[i].recipe
        /\ (k >= 7 /\ call.mealCount = 7) => result.weeklyPlan[7].day = "Sunday"

\* the urgency of an item: the table for a stored daysLeft, 20 without one
UrgencyOfItem(item) == IF item.daysLeft.nan THEN 20 ELSE UrgencyTable(item.daysLeft.v)

\* the percentage of the ingredients of a recipe that the inventory matches
ScoreOfRecipe(recipe, inv) ==
  LET matched == Cardinality(MatchedIndices(recipe.ingredients, inv))
  IN CHOOSE n \in 0..100 : IsRoundHalfUp(n, 100 * matched, Len(recipe.ingredients))

\* the place of a recipe in the catalog list of its key
CatalogIndex(recipe, key) ==
  CHOOSE j \in 1..Len(recipeDatabase(key)) : recipeDatabase(key)[j] = recipe

\* p is discovered before q: its item expires earlier, or stands earlier in
\* the inventory among items of equal expiry, or its recipe is listed earlier
DiscoveredBefore(p, q, inv) ==
  \/ inv[p[1]].expiry < inv[q[1]].expiry
  \/ /\ inv[p[1]].expiry = inv[q[1]].expiry
     /\ \/ p[1] < q[1]
        \/ /\ p[1] = q[1]
           /\ CatalogIndex(p[2], toLowerCase(inv[p[1]].name))
                < CatalogIndex(q[2], toLowerCase(inv[q[1]].name))

\* p is ranked before q, urgency and score being the keys of the pairs
RankedBefore(p, q, urgency, score, inv) ==
  \/ urgency[p] > urgency[q]
  \/ /\ urgency[p] = urgency[q]
     /\ \/ score[p] > score[q]
        \/ /\ score[p] = score[q]
           /\ DiscoveredBefore(p, q, inv)

\* C18: the matches of generateMealPlan are ordered by urgency descending,
\* then by matchScore descending, and matches equal in both keep their
\* discovery order (items by ascending expiry, the recipes of one item in
\* catalog order); the urgency of a match is calculateUrgency of the daysLeft
\* of the item that triggered it and its focusItem is the name of that item.
C18_RankedByUrgencyThenScore ==
  call.op = "generateMealPlan"
  => LET P == QualifyingPairs(inventory, call.preferences)
         urgency == [p \in P |-> UrgencyOfItem(inventory[p[1]])]
         score == [p \in P |-> ScoreOfRecipe(p[2], inventory)]
     IN \A n \in 1..Len(result.mealPlan) :
          \E p \in P :
            /\ Cardinality({q \in P : RankedBefore(q, p, urgency, score, inventory)}) = n - 1
            /\ result.mealPlan[n].recipe = p[2].name
            /\ result.mealPlan[n].focusItem = inventory[p[1]].name
            /\ result.mealPlan[n].urgency = urgency[p]
            /\ result.mealPlan[n].matchScore = Num(score[p])

\* with no daysLeft stored every urgency is 20: the two recipes at 67 stand
\* first, the one of the item that expires first before the other, though
\* that item is later in the inventory
C18_Witness ==
  /\ call.op = "generateMealPlan"
  /\ inventory = PantryWithoutDaysLeft
  /\ Len(result.mealPlan) = 5
  /\ result.mealPlan[1].recipe = "Yogurt Parfait"
  /\ result.mealPlan[2].recipe = "Apple Smoothie"
  /\ result.mealPlan[1].matchScore = result.mealPlan[2].matchScore
  /\ result.mealPlan[3].recipe = "Vegetable Fried Rice"

\* the four candidates in the order of generation
CandidateActions ==
  <<"Focus on waste reduction", "Improve nutrition diversity", "Add more vegetables",
    "Include more proteins">>

CandidatePriorities == <<"HIGH", "MEDIUM", "HIGH", "MEDIUM">>

\* C19: generateActionableRecommendations generates its candidates in the
\* order waste-reduction, nutrition-diversity, vegetable, protein:
\* waste-reduction iff min(wastedCount * 10, 100 - sdgScore) > 0, with impact
\* round(25% of it) and priority HIGH; nutrition-diversity iff 100 -
\* nutritionScore > 15, with impact round(30% of the gap) and priority
\* MEDIUM; vegetable iff categories.vegetables < 2, impact 10; protein iff
\* categories.proteins < 2, impact 15; the list returned is the first
\* min(3, number proposed) of them in that order.
C19_CandidateOrder ==
  call.op = "generateActionableRecommendations"
  => LET sdg == call.sdgMetrics
         nut == call.nutritionMetrics
         potential == IF sdg.wastedCount * 10 <= 100 - sdg.sdgScore
                      THEN sdg.wastedCount * 10 ELSE 100 - sdg.sdgScore
         gap == 100 - nut.nutritionScore.v
         fires == <<potential > 0, ~nut.nutritionScore.nan /\ gap > 15,
                    nut.categories.vegetables < 2, nut.categories.proteins < 2>>
         proposed == {i \in 1..4 : fires[i]}
         actions == Pick(CandidateActions, proposed)
         priorities == Pick(CandidatePriorities, proposed)
         recs == result.recommendations
     IN /\ Len(recs) = Min(3, Cardinality(proposed))
        /\ \A n \in 1..Len(recs) :
             /\ recs[n].action = actions[n]
             /\ recs[n].priority = priorities[n]
             /\ recs[n].action = CandidateActions[1]
                => IsRoundHalfUp(recs[n].impact, 25 * potential, 100)
             /\ recs[n].action = CandidateActions[2]
                => IsRoundHalfUp(recs[n].impact, 30 * gap, 100)
             /\ recs[n].action = CandidateActions[3] => recs[n].impact = 10
             /\ recs[n].action = CandidateActions[4] => recs[n].impact = 15

\* all four candidates are proposed and the protein one is dropped; 25% of
\* a potential of 30 is 7.5, and so is 30% of a gap of 25: both impacts are 8
C19_Witness ==
  /\ call.op = "generateActionableRecommendations"
  /\ call.sdgMetrics.wastedCount = 3
  /\ call.sdgMetrics.sdgScore = 50
  /\ call.nutritionMetrics.nutritionScore = Num(75)
  /\ call.nutritionMetrics.categories.vegetables = 0
  /\ call.nutritionMetrics.categories.proteins = 0
  /\ Len(result.recommendations) = 3
  /\ result.recommendations[1].impact = 8
  /\ result.recommendations[2].impact = 8
  /\ result.recommendations[3].action = "Add more vegetables"

\* C20: every recommendation that generateActionableRecommendations returns
\* for the metrics computed from a log carries 2 or 3 steps, the
\* nutrition-diversity one included, and so does every recommendation of a
\* profile.
C20_TwoOrThreeSteps ==
  call.op \in {"generateActionableRecommendations", "generateCompleteSDGProfile"}
  => \A n \in 1..Len(result.recommendations) :
       Len(result.recommendations[n].steps) \in 2..3

\* C21: the running total of generateActionableRecommendations is the sum,
\* over every candidate whose condition fired (one dropped by the limit of 3
\* included), of 0.25 * wastePotential, 0.15 * (100 - nutritionScore), 10
\* for vegetable and 5 for protein; potentialImprovement = round(min(total,
\* 30)) lies in [0, 30]; estimatedNewScore = min(sdgScore +
\* potentialImprovement, 100), hence sdgScore <= estimatedNewScore <=
\* min(100, sdgScore + 30) for sdgScore in [0, 100].  Amounts in hundredths.
C21_PotentialImprovement ==
  (call.op = "generateActionableRecommendations" /\ call.sdgMetrics.sdgScore \in 0..100)
  => LET sdg == call.sdgMetrics
         nut == call.nutritionMetrics
         potential == IF sdg.wastedCount * 10 <= 100 - sdg.sdgScore
                      THEN sdg.wastedCount * 10 ELSE 100 - sdg.sdgScore
         gap == 100 - nut.nutritionScore.v
         total == (IF potential > 0 THEN 25 * potential ELSE 0)
                  + (IF ~nut.nutritionScore.nan /\ gap > 15 THEN 15 * gap ELSE 0)
                  + (IF nut.categories.vegetables < 2 THEN 1000 ELSE 0)
                  + (IF nut.categories.proteins < 2 THEN 500 ELSE 0)
         capped == IF total <= 3000 THEN total ELSE 3000
     IN /\ IsRoundHalfUp(result.potentialImprovement, capped, 100)
        /\ result.potentialImprovement \in 0..30
        /\ \/ result.estimatedNewScore = sdg.sdgScore + result.potentialImprovement
              /\ result.estimatedNewScore <= 100
           \/ result.estimatedNewScore = 100
              /\ sdg.sdgScore + result.potentialImprovement >= 100
        /\ sdg.sdgScore <= result.estimatedNewScore
        /\ result.estimatedNewScore <= 100
        /\ result.estimatedNewScore <= sdg.sdgScore + 30

\* the four candidates fire: 2.5 + 2.4 + 10 + 5 = 19.9 gives 20, the 5 of the
\* protein candidate counted though the candidate is not returned
C21_Witness ==
  /\ call.op = "generateActionableRecommendations"
  /\ call.sdgMetrics.wastedCount = 1
  /\ call.sdgMetrics.sdgScore = 50
  /\ call.nutritionMetrics.nutritionScore = Num(84)
  /\ call.nutritionMetrics.categories.vegetables = 0
  /\ call.nutritionMetrics.categories.proteins = 0
  /\ Len(result.recommendations) = 3
  /\ result.potentialImprovement = 20
  /\ result.estimatedNewScore = 70

\* the length of the earlier half of a log of n entries: ceil(n / 2)
EarlierHalfLength(n) == CHOOSE k \in 0..n : 2 * k >= n /\ 2 * (k - 1) < n

\* the number of entries of the given status among the first m of the log
CountStatusIn(h, m, status) == Cardinality({i \in 1..m : h[i].status = status})

\* the SDG score of the first m entries: 50 for none
BaselineScoreOf(h, m) ==
  IF m = 0 THEN 50
  ELSE CHOOSE n \in 0..100 : IsRoundHalfUp(n, 100 * CountStatusIn(h, m, "consumed"), m)

\* C22: generateWeeklyInsights(log, currentMetrics) takes as baseline the
\* SDG metrics of the first ceil(length / 2) entries of the log (score 50
\* when that half is empty) and returns weeklyChange = currentMetrics.sdgScore
\* - baselineScore, wasteReduction = (wasted entries of the earlier half) -
\* currentMetrics.wastedCount, previousScore = baselineScore and
\* currentScore = currentMetrics.sdgScore.
C22_WeeklyBaseline ==
  call.op = "generateWeeklyInsights"
  => LET m == EarlierHalfLength(Len(history))
         baselineScore == BaselineScoreOf(history, m)
     IN /\ result.previousScore = baselineScore
        /\ result.currentScore = call.currentMetrics.sdgScore
        /\ result.weeklyChange = call.currentMetrics.sdgScore - baselineScore
        /\ result.wasteReduction
             = CountStatusIn(history, m, "wasted") - call.currentMetrics.wastedCount

\* of three entries the first two are the earlier half: one consumed of two
\* gives the baseline 50, against the 100 of the last entry alone
C22_Witness ==
  /\ call.op = "generateWeeklyInsights"
  /\ Len(history) = 3
  /\ history[1].status = "consumed"
  /\ history[2].status = "wasted"
  /\ history[3].status = "consumed"
  /\ call.currentMetrics.totalItems = 1
  /\ result.previousScore = 50
  /\ result.weeklyChange = 50
  /\ result.wasteReduction = 1

\* C23: the insights of generateWeeklyInsights start with exactly one
\* score-trend line (improved if scoreImprovement > 0, dropped if < 0,
\* stable if 0), followed by a waste-trend line iff wasteReduction # 0 (fewer
\* when positive, more when negative), then by a consumption-increase line
\* iff the current consumedCount exceeds the baseline consumedCount: 1 to 3
\* lines in that order.
C23_InsightLines ==
  call.op = "generateWeeklyInsights"
  => LET m == EarlierHalfLength(Len(history))
         more == call.currentMetrics.consumedCount - CountStatusIn(history, m, "consumed")
         trend == IF result.weeklyChange > 0 THEN "improved"
                  ELSE IF result.weeklyChange < 0 THEN "dropped" ELSE "stable"
         waste == IF result.wasteReduction > 0 THEN <<"fewer">>
                  ELSE IF result.wasteReduction < 0 THEN <<"more">> ELSE <<>>
         consumption == IF more > 0 THEN <<"consumedMore">> ELSE <<>>
         lines == result.insights
     IN /\ Len(lines) \in 1..3
        /\ [i \in 1..Len(lines) |-> lines[i].kind] = <<trend>> \o waste \o consumption
        /\ \A i \in 1..Len(lines) :
             /\ lines[i].kind \in {"improved", "dropped"}
                => (lines[i].n = result.weeklyChange \/ lines[i].n = -result.weeklyChange)
             /\ lines[i].kind \in {"fewer", "more"}
                => (lines[i].n = result.wasteReduction \/ lines[i].n = -result.wasteReduction)
             /\ lines[i].kind = "consumedMore" => lines[i].n = more
             /\ lines[i].n >= 0

\* a stable score with more waste and more consumption: the whole of a log
\* such as wasted, consumed, wasted, consumed against its earlier half
C23_Witness ==
  /\ call.op = "generateWeeklyInsights"
  /\ Len(history) = 4
  /\ call.currentMetrics.totalItems = 4
  /\ Len(result.insights) = 3
  /\ result.insights[1].kind = "stable"
  /\ result.insights[2].kind = "more"
  /\ result.insights[3].kind = "consumedMore"

\* the keyword sets in their order of priority: fruits, vegetables, proteins,
\* grains, dairy
KeywordSets == <<fruitKeywords, vegKeywords, proteinKeywords, grainKeywords, dairyKeywords>>

\* the name an entry goes by: its name, or else its item
NameOf(e) == IF e.name # "" THEN e.name ELSE e.item

\* the categories with a keyword contained in a name once lower-cased
CategoriesHit(name) ==
  LET lower == toLowerCase(name)
  IN {c \in 1..5 : \E j \in 1..Len(KeywordSets[c]) : IsSubstring(KeywordSets[c][j], lower)}

\* the first category a name hits, 0 for none
FirstCategoryHit(name) ==
  LET hits == CategoriesHit(name)
  IN IF hits = {} THEN 0 ELSE CHOOSE c \in hits : \A d \in hits : c <= d

\* C24: calculateNutritionScore classifies only the consumed entries; each
\* increments at most one category, the first in the order fruits,
\* vegetables, proteins, grains, dairy with a keyword contained in its
\* lower-cased name; an entry matching no keyword increments nothing; the
\* five counts sum to at most totalConsumed and wasted entries change none.
C24_FirstCategoryWins ==
  (call.op = "calculateNutritionScore" /\ Len(history) > 0)
  => LET counts == <<result.categories.fruits, result.categories.vegetables,
                     result.categories.proteins, result.categories.grains,
                     result.categories.dairy>>
         names == {NameOf(history[i]) : i \in 1..Len(history)}
     IN /\ \A first \in {[name \in names |-> FirstCategoryHit(name)]} :
             \A c \in 1..5 :
               counts[c] = Cardinality({i \in 1..Len(history) :
                                          /\ history[i].status = "consumed"
                                          /\ first[NameOf(history[i])] = c})
        /\ counts[1] + counts[2] + counts[3] + counts[4] + counts[5] <= result.totalConsumed
        /\ result.categories
             = calculateNutritionScore(SelectSeq(history, IsConsumed)).categories

\* a consumed Grape Yogurt counts as fruit only, beside a wasted fruit and a
\* consumed item of no category
C24_Witness ==
  /\ call.op = "calculateNutritionScore"
  /\ Len(history) = 3
  /\ history[1].item = "Grape Yogurt"
  /\ history[2].name = "Apple" /\ history[2].status = "wasted"
  /\ history[3].name = "Soda"
  /\ result.categories = [fruits |-> 1, vegetables |-> 0, proteins |-> 0, grains |-> 0,
                           dairy |-> 0]
  /\ result.totalConsumed = 2

\* the messages of a suggestion list
Messages(suggestions) == {suggestions[i] : i \in 1..Len(suggestions)}

\* the smallest m with 5 * m >= totalConsumed
FifthRoundedUp(totalConsumed) ==
  CHOOSE m \in 0..totalConsumed : 5 * m >= totalConsumed /\ 5 * (m - 1) < totalConsumed

\* C25: for a non-empty log, calculateNutritionScore suggests vegetables,
\* fruits, proteins and grains exactly when the category's count is strictly
\* below maxPerCategory / 2 and dairy exactly when its count is strictly
\* below maxPerCategory / 3; the positive-reinforcement message is the whole
\* list when no threshold is breached and absent otherwise; the list is
\* never empty.
C25_SuggestionThresholds ==
  (call.op = "calculateNutritionScore" /\ Len(history) > 0)
  => LET c == result.categories
         maxPerCategory == FifthRoundedUp(result.totalConsumed)
         said == Messages(result.suggestions)
         breached == \/ 2 * c.vegetables < maxPerCategory
                     \/ 2 * c.fruits < maxPerCategory
                     \/ 2 * c.proteins < maxPerCategory
                     \/ 2 * c.grains < maxPerCategory
                     \/ 3 * c.dairy < maxPerCategory
     IN /\ "Boost vegetables to 25% of meals" \in said <=> 2 * c.vegetables < maxPerCategory
        /\ "Add more fruits for vitamins" \in said <=> 2 * c.fruits < maxPerCategory
        /\ "Include proteins in every meal" \in said <=> 2 * c.proteins < maxPerCategory
        /\ "Choose whole grains" \in said <=> 2 * c.grains < maxPerCategory
        /\ "Add dairy for calcium" \in said <=> 3 * c.dairy < maxPerCategory
        /\ ~breached => result.suggestions = <<GreatVariety>>
        /\ breached => GreatVariety \notin said
        /\ Len(result.suggestions) > 0

\* eleven consumed entries with one of each category: maxPerCategory is 3, so
\* a count of 1 is below the half but not below the third, and every category
\* but dairy gets its suggestion
C25_Witness ==
  /\ call.op = "calculateNutritionScore"
  /\ result.totalConsumed = 11
  /\ result.categories = [fruits |-> 1, vegetables |-> 1, proteins |-> 1, grains |-> 1,
                           dairy |-> 1]
  /\ result.suggestions = <<"Boost vegetables to 25% of meals", "Add more fruits for vitamins",
                             "Include proteins in every meal", "Choose whole grains">>

\* C26: calculateNutritionScore on the empty log returns nutritionScore 50,
\* five category counts of 0, totalConsumed 0 and the fixed three generic
\* suggestions; generateCompleteSDGProfile on an empty log and an empty
\* inventory returns personalSDGScore 50, nutrition score 50,
\* totalWastedMoney 0, riskValue 0 and no riskItems.
C26_EmptyInputsGiveBaselines ==
  /\ (call.op = "calculateNutritionScore" /\ history = <<>>)
     => /\ result.nutritionScore = Num(50)
        /\ \A k \in DOMAIN result.categories : result.categories[k] = 0
        /\ DOMAIN result.categories = {"fruits", "vegetables", "proteins", "grains", "dairy"}
        /\ result.totalConsumed = 0
        /\ result.suggestions = <<"Add more vegetables", "Include proteins", "Eat whole grains">>
  /\ (call.op = "generateCompleteSDGProfile" /\ history = <<>> /\ inventory = <<>>)
     => /\ result.personalSDGScore = 50
        /\ result.nutrition.score = Num(50)
        /\ result.waste.totalWastedMoney = 0
        /\ result.waste.riskValue = 0
        /\ result.waste.riskItems = <<>>

\* the profile of an empty log and an empty inventory has been built
C26_Witness ==
  /\ call.op = "generateCompleteSDGProfile"
  /\ history = <<>>
  /\ inventory = <<>>
  /\ result.personalSDGScore = 50

\* C27: the shoppingList of generateWeeklyMealPlan has one entry per distinct
\* ingredient missing from at least one selected meal; its quantity is the
\* number of selected meals whose missingIngredients contain it, between 1
\* and totalMeals; no listed ingredient is a substring of an inventory
\* item's lower-cased name, and no ingredient matched by the inventory is
\* listed.
C27_ShoppingList ==
  call.op = "generateWeeklyMealPlan"
  => LET selected == Slice0(generateMealPlan(inventory, <<>>).mealPlan, call.mealCount)
         list == result.shoppingList
         listed == {list[i].item : i \in 1..Len(list)}
         needing(x) == {m \in 1..Len(selected) : x \in SeqRange(selected[m].missingIngredients)}
     IN /\ result.totalMeals = Len(selected)
        /\ \A i, j \in 1..Len(list) : list[i].item = list[j].item => i = j
        /\ listed = UNION {SeqRange(selected[m].missingIngredients) : m \in 1..Len(selected)}
        /\ \A i \in 1..Len(list) :
             /\ list[i].quantity = Cardinality(needing(list[i].item))
             /\ list[i].quantity \in 1..result.totalMeals
             /\ \A k \in 1..Len(inventory) :
                  ~IsSubstring(list[i].item, toLowerCase(inventory[k].name))
        /\ \A m \in 1..Len(selected) :
             SeqRange(selected[m].matchedIngredients) \cap listed = {}

\* a plan of several meals, one ingredient missing from two of them and
\* another from one only
C27_Witness ==
  /\ call.op = "generateWeeklyMealPlan"
  /\ result.totalMeals = 3
  /\ \E i, j \in 1..Len(result.shoppingList) :
       /\ result.shoppingList[i].quantity = 2
       /\ result.shoppingList[j].quantity = 1

\* the number of wasted entries of the later half of a log
WastedInLaterHalf(h) ==
  Cardinality({i \in (EarlierHalfLength(Len(h)) + 1)..Len(h) : h[i].status = "wasted"})

C29_GreatVarietyMeansHighScore ==
  /\ (/\ call.op = "calculateNutritionScore"
      /\ Len(history) > 0
      /\ result.suggestions = <<GreatVariety>>)
     => (~result.nutritionScore.nan /\ result.nutritionScore.v >= 85)
  /\ (/\ call.op = "generateActionableRecommendations"
      /\ Len(history) > 0
      /\ call.nutritionMetrics.suggestions = <<GreatVariety>>)
     => \A n \in 1..Len(result.recommendations) :
          /\ result.recommendations[n].action # "Improve nutrition diversity"
          /\ GreatVariety \notin SeqRange(result.recommendations[n].steps)

\* the consumed entries are a positive multiple of 5 and each category holds
\* exactly one fifth of them
ExactFifths(n, counts) ==
  /\ n > 0
  /\ n % 5 = 0
  /\ \A i \in 1..5 : 5 * counts[i] = n

\* how many entries the categories lack to reach maxPerCategory each
Shortfall(counts, maxPerCategory) ==
  SumSeq([i \in 1..5 |-> maxPerCategory - Min(counts[i], maxPerCategory)])

\* fewer consumed entries than this leave maxPerCategory below 40
RoundingReach == 5 * 39 + 1

====
